---------------------------- MODULE Spec2Model ----------------------------
(***************************************************************************)
(* The filesystem resource store of virtcontainers                        *)
(* (src/virtcontainers/filesystem.go): directories and files under the    *)
(* configuration root and the runtime root, the store / fetch / delete    *)
(* operations on them, and createAllResources.                            *)
(***************************************************************************)
EXTENDS Integers, Sequences, FiniteSets, TLC

VARIABLES
    fs,     \* the two storage trees: [dirs, files]
    pre,    \* fs as it was when the last operation was called
    last,   \* the last operation: its arguments, the fault met, its results
    ops,    \* number of operations run so far
    io,     \* the I/O streams of one process and the agent calls they made
    lc,     \* a sandbox and its containers in the state machine
    cmd,    \* the commands running on one sandbox, its lock and its state file
    cli,    \* the last command of the command line and the calls it made
    agent   \* an AgentType variable and the last call of Set or String on it

vars == <<fs, pre, last, ops, io, lc, cmd, cli, agent>>
storeVars == <<fs, pre, last, ops>>

(***************************************************************************)
(* Bounds of the model.                                                    *)
(***************************************************************************)
MaxOps == 2          \* operations per run
MaxContainers == 1   \* containers of the sandbox handed to createAllResources
MaxKinds == 2        \* length of the resource list handed to delete

(***************************************************************************)
(* sandboxResource: the iota constants of filesystem.go.                   *)
(***************************************************************************)
configFileType == 0
stateFileType == 1
networkFileType == 2
hypervisorFileType == 3
agentFileType == 4
processFileType == 5
lockFileType == 6
mountsFileType == 7
devicesFileType == 8

\* every sandboxResource of the source, and one integer that is none of them
Resources == configFileType..(devicesFileType + 1)

configFile == "config.json"
stateFile == "state.json"
networkFile == "network.json"
hypervisorFile == "hypervisor.json"
agentFile == "agent.json"
processFile == "process.json"
lockFileName == "lock"
mountsFile == "mounts.json"
devicesFile == "devices.json"

configStoragePath == "/var/lib/vc/sbs"
runStoragePath == "/run/vc/sbs"

\* error values of the package, and of the os and encoding/json calls
errNil == "nil"
errNeedSandboxID == "Sandbox ID cannot be empty"
errNeedContainerID == "Container ID cannot be empty"
errInvalidResource == "Invalid sandbox resource"
errNeedFile == "File cannot be empty"
errDataType == "Invalid resource data type"
errNotDevices == "Incorrect data type received, Expected []Device"
errCastDevices == "Could not cast %v into *[]Device type"
errMarshal == "Could not marshall data"
errUnknownDevice == "Unknown device type, could not unmarshal"
errJSON == "json: cannot unmarshal"
ENOENT == "no such file or directory"
EIO == "input/output error"

(***************************************************************************)
(* Identifiers and values handed to the store.                             *)
(***************************************************************************)
SandboxIDs == {"", "s1"}
ContainerIDs == {"", "c1"}

\* The Go types storeResource switches on, a type it does not know
\* (Opaque: the state struct of a hypervisor or an agent) and a type
\* encoding/json cannot marshal (Chan).
StructShapes == {"SandboxConfig", "ContainerConfig", "State",
                 "NetworkNamespace", "Process", "Opaque"}
SliceShapes == {"[]Mount", "[]Device", "[]TypedDevice"}

DeviceVFIO == "VFIO"
DeviceBlock == "Block"
DeviceGeneric == "Generic"
\* a DeviceType() fetchDeviceFile has no case for
DeviceVhostUser == "vhost-user-blk-pci"

\* A Go value: a struct is one item holding its fields, a slice is nil or a
\* sequence of items.
Struct(shape, data) ==
    [shape |-> shape, isNil |-> FALSE, items |-> <<[Type |-> shape, Data |-> data]>>]
Slice(shape, items) == [shape |-> shape, isNil |-> FALSE, items |-> items]
NilSlice(shape) == [shape |-> shape, isNil |-> TRUE, items |-> <<>>]
ChanValue == [shape |-> "Chan", isNil |-> FALSE, items |-> <<>>]
NoValue == [shape |-> "none", isNil |-> TRUE, items |-> <<>>]
Zero(shape) ==
    IF shape \in SliceShapes THEN NilSlice(shape) ELSE Struct(shape, "zero")

Mount1 == [Type |-> "Mount", Data |-> "m1"]
Mount2 == [Type |-> "Mount", Data |-> "m2"]

\* The exported fields of the struct of each device variant: every variant
\* has those of the generic device, and VFIO, Block and vhost-user ones of
\* their own.
DeviceFields(type) ==
    CASE type = DeviceVFIO -> {"ID", "DeviceInfo", "VfioDevs"}
      [] type = DeviceBlock -> {"ID", "DeviceInfo", "BlockDrive"}
      [] type = DeviceVhostUser -> {"ID", "DeviceInfo", "VhostUserDeviceAttrs"}
      [] OTHER -> {"ID", "DeviceInfo"}

\* A device: Type is what its DeviceType() returns, which names its struct,
\* and fields holds the value of each field of that struct ("" is the zero
\* value).
Dev(type, data) == [Type |-> type, fields |-> [n \in DeviceFields(type) |-> data]]

TypedValues ==
    {Struct("SandboxConfig", "sc1"), Struct("ContainerConfig", "cc1"),
     Struct("State", "ready"), Struct("State", "running"),
     Struct("NetworkNamespace", "ns1"), Struct("Process", "pid1"),
     NilSlice("[]Mount"), Slice("[]Mount", <<>>), Slice("[]Mount", <<Mount1, Mount2>>),
     NilSlice("[]Device"), Slice("[]Device", <<>>),
     Slice("[]Device", <<Dev(DeviceBlock, "b1"), Dev(DeviceVFIO, "v1")>>)}
OpaqueValues == {Struct("Opaque", "h1"), Struct("Opaque", "h2"), ChanValue}
Values == TypedValues \cup OpaqueValues

(***************************************************************************)
(* File contents.  json is the kind of JSON text the file holds: "object", *)
(* "array", "null", or "" for a file that was created or truncated and     *)
(* holds no complete JSON text.                                            *)
(***************************************************************************)
Truncated == [json |-> "", items |-> <<>>]
JSONNull == [json |-> "null", items |-> <<>>]
JSONObject(items) == [json |-> "object", items |-> items]
JSONArray(items) == [json |-> "array", items |-> items]

\* json.Marshal
jsonMarshal(v) ==
    IF v.shape = "Chan" THEN [err |-> errMarshal, bytes |-> Truncated]
    ELSE IF v.shape \in SliceShapes
         THEN [err |-> errNil,
               bytes |-> IF v.isNil THEN JSONNull ELSE JSONArray(v.items)]
         ELSE [err |-> errNil, bytes |-> JSONObject(v.items)]

\* json.Unmarshal into a zero value of the given shape.  An object read into
\* another struct type keeps only the fields both types name ("partial").
jsonUnmarshal(bytes, shape) ==
    IF bytes.json = "" THEN [err |-> errJSON, val |-> Zero(shape)]
    ELSE IF bytes.json = "null" THEN [err |-> errNil, val |-> Zero(shape)]
    ELSE IF shape \in SliceShapes
         THEN IF bytes.json = "array"
              THEN [err |-> errNil, val |-> Slice(shape, bytes.items)]
              ELSE [err |-> errJSON, val |-> Zero(shape)]
         ELSE IF bytes.json = "object"
              THEN [err |-> errNil,
                    val |-> Struct(shape,
                                   IF bytes.items[1].Type = shape
                                   THEN bytes.items[1].Data ELSE "partial")]
              ELSE [err |-> errJSON, val |-> Zero(shape)]

(***************************************************************************)
(* The file system.  A directory is <<root, sandboxID, containerID>>, with *)
(* containerID "" for the directory of the sandbox; a file is              *)
(* <<root, sandboxID, containerID, name>>.  NoPath is the empty path "".   *)
(***************************************************************************)
NoPath == <<>>
EmptyFS == [dirs |-> {}, files |-> [p \in {} |-> Truncated]]

Under(p, dir) ==
    /\ p[1] = dir[1]
    /\ p[2] = dir[2]
    /\ (dir[3] = "" \/ p[3] = dir[3])

DirOf(file) == <<file[1], file[2], file[3]>>

\* os.Mkdir of the last element, which fails on a directory that exists
MkdirExclusive(f, path) ==
    IF path = NoPath THEN [fs |-> f, err |-> ENOENT]
    ELSE IF path \in f.dirs THEN [fs |-> f, err |-> EIO]
    ELSE [fs |-> [f EXCEPT !.dirs = @ \cup {<<path[1], path[2], "">>, path}],
          err |-> errNil]

\* os.MkdirAll
MkdirAll(f, path) ==
    IF path = NoPath THEN [fs |-> f, err |-> ENOENT]
    ELSE [fs |-> [f EXCEPT !.dirs = @ \cup {<<path[1], path[2], "">>, path}],
          err |-> errNil]

\* os.Create followed by Write of bytes: the file holds them, whatever it held
WriteFile(f, file, bytes) ==
    [f EXCEPT !.files = [p \in DOMAIN f.files \cup {file} |->
                            IF p = file THEN bytes ELSE f.files[p]]]

\* os.RemoveAll
RemoveAll(f, dir) ==
    [dirs |-> {d \in f.dirs : ~Under(d, dir)},
     files |-> [p \in {q \in DOMAIN f.files : ~Under(q, dir)} |-> f.files[p]]]

(***************************************************************************)
(* Resource paths.                                                         *)
(***************************************************************************)
\* the switch with networkFileType missing from its first case
resourceNeedsContainerIDNetwork(sandboxSpecific, resource) ==
    IF resource \in {lockFileType, hypervisorFileType, agentFileType}
    THEN FALSE
    ELSE ~sandboxSpecific

\* every resource taken for a sandbox-only one
resourceNeedsNoContainerID(sandboxSpecific, resource) == FALSE

resourceNeedsContainerID(sandboxSpecific, resource) ==
    IF resource \in {lockFileType, networkFileType, hypervisorFileType, agentFileType}
    THEN FALSE
    ELSE ~sandboxSpecific

\* the switch of resourceDir with the state under the configuration root
ResourceRootStateWithConfig(resource) ==
    IF resource \in {configFileType, stateFileType} THEN "/var/lib/vc/sbs"
    ELSE IF resource \in {networkFileType, processFileType,
                          lockFileType, mountsFileType, devicesFileType,
                          hypervisorFileType, agentFileType}
         THEN "/run/vc/sbs"
         ELSE ""

\* the storage root of a resource ("" for a resource the switch does not know)
ResourceRoot(resource) ==
    IF resource = configFileType THEN configStoragePath
    ELSE IF resource \in {stateFileType, networkFileType, processFileType,
                          lockFileType, mountsFileType, devicesFileType,
                          hypervisorFileType, agentFileType}
         THEN runStoragePath
         ELSE ""

\* the directory with the container id left out for the resources that do not
\* need one
resourceDirByNeed(sandboxSpecific, sandboxID, containerID, resource) ==
    IF sandboxID = "" THEN [dir |-> NoPath, err |-> errNeedSandboxID]
    ELSE IF resourceNeedsContainerID(sandboxSpecific, resource) /\ containerID = ""
         THEN [dir |-> NoPath, err |-> errNeedContainerID]
    ELSE IF ResourceRoot(resource) = ""
         THEN [dir |-> NoPath, err |-> errInvalidResource]
    ELSE [dir |-> <<ResourceRoot(resource), sandboxID,
                    IF resourceNeedsContainerID(sandboxSpecific, resource)
                    THEN containerID ELSE "">>,
          err |-> errNil]

\* the directory without the container id in it
resourceDirOfSandbox(sandboxSpecific, sandboxID, containerID, resource) ==
    IF sandboxID = "" THEN [dir |-> NoPath, err |-> errNeedSandboxID]
    ELSE IF resourceNeedsContainerID(sandboxSpecific, resource) /\ containerID = ""
         THEN [dir |-> NoPath, err |-> errNeedContainerID]
    ELSE IF ResourceRoot(resource) = ""
         THEN [dir |-> NoPath, err |-> errInvalidResource]
    ELSE [dir |-> <<ResourceRoot(resource), sandboxID, "">>, err |-> errNil]

resourceDir(sandboxSpecific, sandboxID, containerID, resource) ==
    IF sandboxID = "" THEN [dir |-> NoPath, err |-> errNeedSandboxID]
    ELSE IF resourceNeedsContainerID(sandboxSpecific, resource) /\ containerID = ""
         THEN [dir |-> NoPath, err |-> errNeedContainerID]
    ELSE IF ResourceRoot(resource) = ""
         THEN [dir |-> NoPath, err |-> errInvalidResource]
    ELSE [dir |-> <<ResourceRoot(resource), sandboxID, containerID>>, err |-> errNil]

ResourceFileName(resource) ==
    CASE resource = configFileType -> configFile
      [] resource = stateFileType -> stateFile
      [] resource = networkFileType -> networkFile
      [] resource = hypervisorFileType -> hypervisorFile
      [] resource = agentFileType -> agentFile
      [] resource = processFileType -> processFile
      [] resource = lockFileType -> lockFileName
      [] resource = mountsFileType -> mountsFile
      [] resource = devicesFileType -> devicesFile
      [] OTHER -> ""

resourceURI(sandboxSpecific, sandboxID, containerID, resource) ==
    IF sandboxID = ""
    THEN [file |-> NoPath, dir |-> NoPath, err |-> errNeedSandboxID]
    ELSE LET d == resourceDir(sandboxSpecific, sandboxID, containerID, resource)
         IN  IF d.err # errNil
             THEN [file |-> NoPath, dir |-> NoPath, err |-> d.err]
             ELSE IF ResourceFileName(resource) = ""
                  THEN [file |-> NoPath, dir |-> NoPath, err |-> errInvalidResource]
                  ELSE [file |-> d.dir \o <<ResourceFileName(resource)>>,
                        dir |-> d.dir, err |-> errNil]

containerURI(sandboxID, containerID, resource) ==
    IF sandboxID = ""
    THEN [file |-> NoPath, dir |-> NoPath, err |-> errNeedSandboxID]
    ELSE IF containerID = ""
         THEN [file |-> NoPath, dir |-> NoPath, err |-> errNeedContainerID]
         ELSE resourceURI(FALSE, sandboxID, containerID, resource)

sandboxURI(sandboxID, resource) == resourceURI(TRUE, sandboxID, "", resource)

commonResourceChecks(sandboxSpecific, sandboxID, containerID, resource) ==
    IF sandboxID = "" THEN errNeedSandboxID
    ELSE IF resourceNeedsContainerID(sandboxSpecific, resource) /\ containerID = ""
         THEN errNeedContainerID
    ELSE IF resource \in {configFileType, stateFileType, networkFileType,
                          hypervisorFileType, agentFileType, processFileType,
                          mountsFileType, devicesFileType}
         THEN errNil
         ELSE errInvalidResource

(***************************************************************************)
(* Files.  fault numbers the system call of the operation that fails with  *)
(* EIO (0: none); for a store 1 is os.Create and 2 is the Write.           *)
(***************************************************************************)
\* a create that makes the directories the file needs
CreateWithParents(f, file, failed) ==
    IF failed THEN [fs |-> f, err |-> EIO]
    ELSE [fs |-> [dirs |-> f.dirs \cup {<<file[1], file[2], "">>, <<file[1], file[2], file[3]>>},
                  files |-> [p \in DOMAIN f.files \cup {file} |->
                                IF p = file THEN [json |-> "", items |-> <<>>]
                                ELSE f.files[p]]],
          err |-> errNil]

\* os.Create: the parent directory must exist; the file is created or truncated
Create(f, file, failed) ==
    IF failed THEN [fs |-> f, err |-> EIO]
    ELSE IF DirOf(file) \notin f.dirs THEN [fs |-> f, err |-> ENOENT]
    ELSE [fs |-> WriteFile(f, file, Truncated), err |-> errNil]

\* storeFile that serializes the value before it creates the file
storeFileMarshalFirst(f, file, data, fault) ==
    IF file = NoPath THEN [fs |-> f, err |-> errNeedFile]
    ELSE LET c == Create(f, file, fault = 1)
             m == jsonMarshal(data)
         IN  IF m.err # errNil THEN [fs |-> f, err |-> errMarshal]
             ELSE IF c.err # errNil THEN c
             ELSE IF fault = 2 THEN [fs |-> c.fs, err |-> errNil]
             ELSE [fs |-> WriteFile(c.fs, file, m.bytes), err |-> errNil]

storeFile(f, file, data, fault) ==
    IF file = NoPath THEN [fs |-> f, err |-> errNeedFile]
    ELSE LET c == Create(f, file, fault = 1)
             m == jsonMarshal(data)
         IN  IF c.err # errNil THEN c
             ELSE IF m.err # errNil THEN [fs |-> c.fs, err |-> errMarshal]
             ELSE IF fault = 2 THEN [fs |-> c.fs, err |-> errNil]
             ELSE [fs |-> WriteFile(c.fs, file, m.bytes), err |-> errNil]

\* json.Marshal of a device: the object of the fields of its struct
jsonMarshalDevice(d) ==
    [err |-> errNil, bytes |-> [json |-> "object", fields |-> d.fields]]

\* the envelope of a device: its DeviceType() and its JSON, the error of
\* json.Marshal dropped
TypedDevice(d) == [Type |-> d.Type, Data |-> jsonMarshalDevice(d).bytes]

\* the []TypedDevice of storeDeviceFile: nil when there is no device
TypedDevices(devices) ==
    IF Len(devices.items) = 0 THEN NilSlice("[]TypedDevice")
    ELSE Slice("[]TypedDevice",
               [i \in DOMAIN devices.items |-> TypedDevice(devices.items[i])])

storeDeviceFile(f, file, data, fault) ==
    IF file = NoPath THEN [fs |-> f, err |-> errNeedFile]
    ELSE LET c == Create(f, file, fault = 1)
         IN  IF c.err # errNil THEN c
             ELSE IF data.shape # "[]Device" THEN [fs |-> c.fs, err |-> errNotDevices]
             ELSE IF fault = 2 THEN [fs |-> c.fs, err |-> EIO]
             ELSE [fs |-> WriteFile(c.fs, file, jsonMarshal(TypedDevices(data)).bytes),
                   err |-> errNil]

\* json.Unmarshal of the Data of an envelope into a generic device whatever
\* the variant
jsonUnmarshalDeviceGeneric(data, type) ==
    IF data.json = "null"
    THEN [err |-> errNil, val |-> Dev(DeviceGeneric, "")]
    ELSE IF data.json # "object"
    THEN [err |-> errJSON, val |-> Dev(DeviceGeneric, "")]
    ELSE [err |-> errNil,
          val |-> [Type |-> DeviceGeneric,
                   fields |-> [n \in DeviceFields(DeviceGeneric) |->
                                  IF n \in DOMAIN data.fields THEN data.fields[n]
                                  ELSE ""]]]

\* json.Unmarshal of the Data of an envelope into the zero struct of the
\* variant type: null is no error and leaves the struct zero; of an object
\* the fields it names are set, the others stay zero, and what the object
\* holds besides is dropped; any other JSON value is an error
jsonUnmarshalDevice(data, type) ==
    IF data.json = "null"
    THEN [err |-> errNil, val |-> Dev(type, "")]
    ELSE IF data.json # "object"
    THEN [err |-> errJSON, val |-> Dev(type, "")]
    ELSE [err |-> errNil,
          val |-> [Type |-> type,
                   fields |-> [n \in DeviceFields(type) |->
                                  IF n \in DOMAIN data.fields THEN data.fields[n]
                                  ELSE ""]]]

RECURSIVE DecodeDevicesReversed(_)
\* the loop putting each decoded device in front of the ones before it
DecodeDevicesReversed(typed) ==
    IF typed = <<>> THEN [err |-> errNil, items |-> <<>>]
    ELSE IF Head(typed).Type \notin {DeviceVFIO, DeviceBlock, DeviceGeneric}
         THEN [err |-> errUnknownDevice, items |-> <<>>]
         ELSE LET device == jsonUnmarshalDevice(Head(typed).Data, Head(typed).Type)
                  rest == DecodeDevicesReversed(Tail(typed))
              IN  IF device.err # errNil THEN [err |-> device.err, items |-> <<>>]
                  ELSE IF rest.err # errNil THEN rest
                  ELSE [err |-> errNil, items |-> rest.items \o <<device.val>>]

RECURSIVE DecodeDevices(_)
\* the loop of fetchDeviceFile over the envelopes: the switch on the Type of
\* each envelope decodes its Data into the struct of that variant; the
\* devices, or the first error
DecodeDevices(typed) ==
    IF typed = <<>> THEN [err |-> errNil, items |-> <<>>]
    ELSE IF Head(typed).Type \notin {DeviceVFIO, DeviceBlock, DeviceGeneric}
         THEN [err |-> errUnknownDevice, items |-> <<>>]
         ELSE LET device == jsonUnmarshalDevice(Head(typed).Data, Head(typed).Type)
                  rest == DecodeDevices(Tail(typed))
              IN  IF device.err # errNil THEN [err |-> device.err, items |-> <<>>]
                  ELSE IF rest.err # errNil THEN rest
                  ELSE [err |-> errNil, items |-> <<device.val>> \o rest.items]

\* fetchDeviceFile assigning the caller's list before the envelopes are
\* decoded: an envelope that does not decode leaves the list empty
fetchDeviceFileAssignFirst(fileData, devices) ==
    LET t == jsonUnmarshal(fileData, "[]TypedDevice")
        d == DecodeDevices(t.val.items)
    IN  IF t.err # errNil THEN [err |-> t.err, val |-> devices]
        ELSE IF d.err # errNil THEN [err |-> d.err, val |-> NilSlice("[]Device")]
        ELSE [err |-> errNil,
              val |-> IF d.items = <<>> THEN NilSlice("[]Device")
                      ELSE Slice("[]Device", d.items)]

\* devices is the caller's list: it is assigned only when every envelope decodes
fetchDeviceFile(fileData, devices) ==
    LET t == jsonUnmarshal(fileData, "[]TypedDevice")
        d == DecodeDevices(t.val.items)
    IN  IF t.err # errNil THEN [err |-> t.err, val |-> devices]
        ELSE IF d.err # errNil THEN [err |-> d.err, val |-> devices]
        ELSE [err |-> errNil,
              val |-> IF d.items = <<>> THEN NilSlice("[]Device")
                      ELSE Slice("[]Device", d.items)]

\* fetchFile with the error of ioutil.ReadFile dropped: a missing file reads
\* as the value handed in
fetchFileNoReadError(f, file, resource, data) ==
    IF file = NoPath THEN [err |-> errNeedFile, val |-> data]
    ELSE IF file \notin DOMAIN f.files THEN [err |-> errNil, val |-> data]
    ELSE IF resource = devicesFileType
         THEN IF data.shape # "[]Device" THEN [err |-> errCastDevices, val |-> data]
              ELSE fetchDeviceFile(f.files[file], data)
         ELSE LET u == jsonUnmarshal(f.files[file], data.shape)
              IN  IF u.err # errNil THEN [err |-> u.err, val |-> data] ELSE u

\* data is the zero value the caller hands in; its shape is the Go type read
fetchFile(f, file, resource, data) ==
    IF file = NoPath THEN [err |-> errNeedFile, val |-> data]
    ELSE IF file \notin DOMAIN f.files THEN [err |-> ENOENT, val |-> data]
    ELSE IF resource = devicesFileType
         THEN IF data.shape # "[]Device" THEN [err |-> errCastDevices, val |-> data]
              ELSE fetchDeviceFile(f.files[file], data)
         ELSE LET u == jsonUnmarshal(f.files[file], data.shape)
              IN  IF u.err # errNil THEN [err |-> u.err, val |-> data] ELSE u

(***************************************************************************)
(* store and fetch.                                                        *)
(***************************************************************************)
\* the resource each case of storeResource's type switch stores ("" in the
\* default case)
ShapeResource(shape) ==
    CASE shape \in {"SandboxConfig", "ContainerConfig"} -> configFileType
      [] shape = "State" -> stateFileType
      [] shape = "NetworkNamespace" -> networkFileType
      [] shape = "Process" -> processFileType
      [] shape = "[]Mount" -> mountsFileType
      [] shape = "[]Device" -> devicesFileType
      [] OTHER -> -1

\* the body without the comparison of resource with expected
storeOneResourceUnchecked(f, sandboxSpecific, sandboxID, containerID, resource, expected, file, fault) ==
    LET u == resourceURI(sandboxSpecific, sandboxID, containerID, expected)
    IN  IF u.err # errNil THEN [fs |-> f, err |-> u.err]
        ELSE storeFile(f, u.file, file, fault)

\* the body the six store...Resource functions share: expected is the one
\* resource the function stores
storeOneResource(f, sandboxSpecific, sandboxID, containerID, resource, expected, file, fault) ==
    IF resource # expected THEN [fs |-> f, err |-> errInvalidResource]
    ELSE LET u == resourceURI(sandboxSpecific, sandboxID, containerID, expected)
         IN  IF u.err # errNil THEN [fs |-> f, err |-> u.err]
             ELSE storeFile(f, u.file, file, fault)

storeSandboxAndContainerConfigResource(f, sandboxSpecific, sandboxID, containerID, resource, file, fault) ==
    storeOneResource(f, sandboxSpecific, sandboxID, containerID, resource,
                     configFileType, file, fault)

storeStateResource(f, sandboxSpecific, sandboxID, containerID, resource, file, fault) ==
    storeOneResource(f, sandboxSpecific, sandboxID, containerID, resource,
                     stateFileType, file, fault)

\* a sandbox only resource: the URI is asked for with sandboxSpecific true
storeNetworkResource(f, sandboxSpecific, sandboxID, containerID, resource, file, fault) ==
    storeOneResource(f, TRUE, sandboxID, containerID, resource,
                     networkFileType, file, fault)

storeProcessResource(f, sandboxSpecific, sandboxID, containerID, resource, file, fault) ==
    storeOneResource(f, sandboxSpecific, sandboxID, containerID, resource,
                     processFileType, file, fault)

storeMountResource(f, sandboxSpecific, sandboxID, containerID, resource, file, fault) ==
    storeOneResource(f, sandboxSpecific, sandboxID, containerID, resource,
                     mountsFileType, file, fault)

storeDeviceResource(f, sandboxSpecific, sandboxID, containerID, resource, file, fault) ==
    IF resource # devicesFileType THEN [fs |-> f, err |-> errInvalidResource]
    ELSE LET u == resourceURI(sandboxSpecific, sandboxID, containerID, devicesFileType)
         IN  IF u.err # errNil THEN [fs |-> f, err |-> u.err]
             ELSE storeDeviceFile(f, u.file, file, fault)

storeResource(f, sandboxSpecific, sandboxID, containerID, resource, data, fault) ==
    LET chk == commonResourceChecks(sandboxSpecific, sandboxID, containerID, resource)
    IN  IF chk # errNil THEN [fs |-> f, err |-> chk]
        ELSE CASE data.shape \in {"SandboxConfig", "ContainerConfig"} ->
                      storeSandboxAndContainerConfigResource(
                          f, sandboxSpecific, sandboxID, containerID, resource, data, fault)
               [] data.shape = "State" ->
                      storeStateResource(
                          f, sandboxSpecific, sandboxID, containerID, resource, data, fault)
               [] data.shape = "NetworkNamespace" ->
                      storeNetworkResource(
                          f, sandboxSpecific, sandboxID, containerID, resource, data, fault)
               [] data.shape = "Process" ->
                      storeProcessResource(
                          f, sandboxSpecific, sandboxID, containerID, resource, data, fault)
               [] data.shape = "[]Mount" ->
                      storeMountResource(
                          f, sandboxSpecific, sandboxID, containerID, resource, data, fault)
               [] data.shape = "[]Device" ->
                      storeDeviceResource(
                          f, sandboxSpecific, sandboxID, containerID, resource, data, fault)
               [] OTHER -> [fs |-> f, err |-> errDataType]

fetchResource(f, sandboxSpecific, sandboxID, containerID, resource, data) ==
    LET chk == commonResourceChecks(sandboxSpecific, sandboxID, containerID, resource)
        u == resourceURI(sandboxSpecific, sandboxID, containerID, resource)
    IN  IF chk # errNil THEN [err |-> chk, val |-> data]
        ELSE IF u.err # errNil THEN [err |-> u.err, val |-> data]
        ELSE fetchFile(f, u.file, resource, data)

storeSandboxResource(f, sandboxID, resource, data, fault) ==
    storeResource(f, TRUE, sandboxID, "", resource, data, fault)

storeContainerResource(f, sandboxID, containerID, resource, data, fault) ==
    IF sandboxID = "" THEN [fs |-> f, err |-> errNeedSandboxID]
    ELSE IF containerID = "" THEN [fs |-> f, err |-> errNeedContainerID]
    ELSE storeResource(f, FALSE, sandboxID, containerID, resource, data, fault)

\* storeHypervisorState (resource = hypervisorFileType) and storeAgentState
\* (resource = agentFileType)
storeSandboxState(f, sandboxID, resource, state, fault) ==
    LET u == resourceURI(TRUE, sandboxID, "", resource)
    IN  IF u.err # errNil THEN [fs |-> f, err |-> u.err]
        ELSE storeFile(f, u.file, state, fault)

\* The Go type each fetch function of the interface reads into:
\* fetchSandboxConfig, fetchSandboxState, fetchSandboxNetwork,
\* fetchContainerConfig, fetchContainerState, fetchContainerProcess,
\* fetchContainerMounts, fetchContainerDevices; fetchHypervisorState and
\* fetchAgentState read into the struct of their caller.
FetchShape(sandboxSpecific, resource) ==
    CASE resource = configFileType ->
             IF sandboxSpecific THEN "SandboxConfig" ELSE "ContainerConfig"
      [] resource = stateFileType -> "State"
      [] resource = networkFileType -> "NetworkNamespace"
      [] resource = processFileType -> "Process"
      [] resource = mountsFileType -> "[]Mount"
      [] resource = devicesFileType -> "[]Device"
      [] OTHER -> "Opaque"

\* the kinds the interface has a fetch function for: of a sandbox
\* (fetchSandboxConfig, fetchSandboxState, fetchSandboxNetwork,
\* fetchHypervisorState, fetchAgentState) and of a container
\* (fetchContainerConfig, fetchContainerState, fetchContainerProcess,
\* fetchContainerMounts, fetchContainerDevices)
SandboxFetchKinds ==
    {configFileType, stateFileType, networkFileType, hypervisorFileType, agentFileType}
ContainerFetchKinds ==
    {configFileType, stateFileType, processFileType, mountsFileType, devicesFileType}

\* what the private fetchResource reads under a key into the zero value of
\* the type of the kind, whether or not the interface has a function for it
fetchKey(f, sandboxSpecific, sandboxID, containerID, resource) ==
    fetchResource(f, sandboxSpecific, sandboxID, containerID, resource,
                  Zero(FetchShape(sandboxSpecific, resource)))

\* a fetch function of the interface, for a sandbox and a kind of
\* SandboxFetchKinds or a container and a kind of ContainerFetchKinds: the
\* value and the error it returns
Fetch(f, sandboxSpecific, sandboxID, containerID, resource) ==
    LET shape == FetchShape(sandboxSpecific, resource)
        r == fetchResource(f, sandboxSpecific, sandboxID, containerID, resource,
                           Zero(shape))
    IN  IF r.err # errNil /\ resource \notin {hypervisorFileType, agentFileType}
        THEN [err |-> r.err,
              val |-> IF shape \in SliceShapes THEN Slice(shape, <<>>) ELSE Zero(shape)]
        ELSE r

(***************************************************************************)
(* delete.  resources is [isNil, list]: a nil slice, or the list given.    *)
(* fault numbers the os.RemoveAll call that fails (0: none).               *)
(***************************************************************************)
NilResources == [isNil |-> TRUE, list |-> <<>>]
ResourceList(list) == [isNil |-> FALSE, list |-> list]

\* the default list with the configuration left out
DefaultResourcesStateOnly(resources) ==
    IF resources.isNil THEN <<stateFileType>> ELSE resources.list

DefaultResources(resources) ==
    IF resources.isNil THEN <<configFileType, stateFileType>> ELSE resources.list

\* the loop of delete as one step: it removes every listed directory, or
\* none when one of the removals would fail
RemoveEachAtomic(f, sandboxID, containerID, list, i, fault) ==
    LET failing == {j \in i..Len(list) :
                       sandboxURI(sandboxID, list[j]).err # errNil \/ fault = j}
        first == CHOOSE j \in failing : \A k \in failing : j <= k
        gone(p) == \E j \in i..Len(list) :
                       Under(p, <<ResourceRoot(list[j]), sandboxID, containerID>>)
    IN  IF failing # {}
        THEN [fs |-> f,
              err |-> IF sandboxURI(sandboxID, list[first]).err # errNil
                      THEN sandboxURI(sandboxID, list[first]).err ELSE EIO]
        ELSE [fs |-> [dirs |-> {d \in f.dirs : ~gone(d)},
                      files |-> [p \in {q \in DOMAIN f.files : ~gone(q)} |-> f.files[p]]],
              err |-> errNil]

RECURSIVE RemoveEach(_, _, _, _, _, _)
\* the loop of deleteSandboxResources (containerID = "") and of
\* deleteContainerResources over list, from its i-th element
RemoveEach(f, sandboxID, containerID, list, i, fault) ==
    IF i > Len(list) THEN [fs |-> f, err |-> errNil]
    ELSE LET u == sandboxURI(sandboxID, list[i])
         IN  IF u.err # errNil THEN [fs |-> f, err |-> u.err]
             ELSE IF fault = i THEN [fs |-> f, err |-> EIO]
             ELSE RemoveEach(RemoveAll(f, <<u.dir[1], u.dir[2], containerID>>),
                             sandboxID, containerID, list, i + 1, fault)

\* deleteSandboxResources removing both directories of the sandbox whatever
\* the list names
deleteSandboxResourcesAll(f, sandboxID, resources, fault) ==
    RemoveEach(f, sandboxID, "", <<configFileType, stateFileType>>, 1, fault)

deleteSandboxResources(f, sandboxID, resources, fault) ==
    RemoveEach(f, sandboxID, "", DefaultResources(resources), 1, fault)

\* deleteContainerResources with a check of the container id
deleteContainerResourcesChecked(f, sandboxID, containerID, resources, fault) ==
    IF containerID = "" THEN [fs |-> f, err |-> errNeedContainerID]
    ELSE RemoveEach(f, sandboxID, containerID, DefaultResources(resources), 1, fault)

deleteContainerResources(f, sandboxID, containerID, resources, fault) ==
    RemoveEach(f, sandboxID, containerID, DefaultResources(resources), 1, fault)

(***************************************************************************)
(* createAllResources.  sandbox is [id, containers]; fault numbers the     *)
(* failing call among the os.MkdirAll calls, in order, and the os.Create   *)
(* of the lock file after them (0: none).                                  *)
(***************************************************************************)
\* the paths handed to os.MkdirAll, in order (an ignored URI error leaves "")
MkdirPaths(sandbox) ==
    LET n == Len(sandbox.containers)
    IN  [k \in 1..(2 + 2 * n) |->
            LET r == IF k % 2 = 1 THEN stateFileType ELSE configFileType
            IN  IF k <= 2 THEN sandboxURI(sandbox.id, r).dir
                ELSE containerURI(sandbox.id, sandbox.containers[(k - 1) \div 2], r).dir]

RECURSIVE MkdirEach(_, _, _, _)
\* os.MkdirAll of paths[k..]: the file system, and the call that failed (0: none)
MkdirEach(f, paths, k, fault) ==
    IF k > Len(paths) THEN [fs |-> f, failed |-> 0, err |-> errNil]
    ELSE LET m == IF fault = k THEN [fs |-> f, err |-> EIO] ELSE MkdirAll(f, paths[k])
         IN  IF m.err # errNil THEN [fs |-> f, failed |-> k, err |-> m.err]
             ELSE MkdirEach(m.fs, paths, k + 1, fault)

\* createAllResources with the rollback of the container loop left out
createAllResourcesNoRollback(f, sandbox, fault) ==
    LET paths == MkdirPaths(sandbox)
        d == MkdirEach(f, paths, 1, fault)
        lock == sandboxURI(sandbox.id, lockFileType)
        c == Create(d.fs, lock.file, fault = Len(paths) + 1)
    IN  IF d.failed # 0
        THEN [fs |-> d.fs, err |-> d.err, lock |-> "none"]
        ELSE IF lock.err # errNil
             THEN [fs |-> deleteSandboxResources(d.fs, sandbox.id, NilResources, 0).fs,
                   err |-> lock.err, lock |-> "none"]
        ELSE IF lock.file \in DOMAIN d.fs.files
             THEN [fs |-> d.fs, err |-> errNil, lock |-> "kept"]
        ELSE IF c.err # errNil
             THEN [fs |-> deleteSandboxResources(d.fs, sandbox.id, NilResources, 0).fs,
                   err |-> c.err, lock |-> "none"]
             ELSE [fs |-> c.fs, err |-> errNil, lock |-> "created"]

\* createAllResources with a rollback at the directories of the sandbox too
createAllResourcesRollbackAll(f, sandbox, fault) ==
    LET paths == MkdirPaths(sandbox)
        d == MkdirEach(f, paths, 1, fault)
        lock == sandboxURI(sandbox.id, lockFileType)
        c == Create(d.fs, lock.file, fault = Len(paths) + 1)
    IN  IF d.failed # 0
        THEN [fs |-> deleteSandboxResources(d.fs, sandbox.id, NilResources, 0).fs,
              err |-> d.err, lock |-> "none"]
        ELSE IF lock.err # errNil
             THEN [fs |-> deleteSandboxResources(d.fs, sandbox.id, NilResources, 0).fs,
                   err |-> lock.err, lock |-> "none"]
        ELSE IF lock.file \in DOMAIN d.fs.files
             THEN [fs |-> d.fs, err |-> errNil, lock |-> "kept"]
        ELSE IF c.err # errNil
             THEN [fs |-> deleteSandboxResources(d.fs, sandbox.id, NilResources, 0).fs,
                   err |-> c.err, lock |-> "none"]
             ELSE [fs |-> c.fs, err |-> errNil, lock |-> "created"]

\* createAllResources with a rollback that removes what the call created
\* and nothing else
createAllResourcesUndo(f, sandbox, fault) ==
    LET paths == MkdirPaths(sandbox)
        d == MkdirEach(f, paths, 1, fault)
        lock == sandboxURI(sandbox.id, lockFileType)
        c == Create(d.fs, lock.file, fault = Len(paths) + 1)
    IN  IF d.failed # 0
        THEN IF d.failed <= 2 THEN [fs |-> d.fs, err |-> d.err, lock |-> "none"]
             ELSE [fs |-> f, err |-> d.err, lock |-> "none"]
        ELSE IF lock.err # errNil THEN [fs |-> f, err |-> lock.err, lock |-> "none"]
        ELSE IF lock.file \in DOMAIN d.fs.files
             THEN [fs |-> d.fs, err |-> errNil, lock |-> "kept"]
        ELSE IF c.err # errNil THEN [fs |-> f, err |-> c.err, lock |-> "none"]
             ELSE [fs |-> c.fs, err |-> errNil, lock |-> "created"]

\* lock tells what became of the lock file: "kept" when os.Stat found it,
\* "created" when os.Create made it, "none" when the call failed
createAllResources(f, sandbox, fault) ==
    LET paths == MkdirPaths(sandbox)
        d == MkdirEach(f, paths, 1, fault)
        lock == sandboxURI(sandbox.id, lockFileType)
        c == Create(d.fs, lock.file, fault = Len(paths) + 1)
    IN  IF d.failed # 0
        THEN IF d.failed <= 2 THEN [fs |-> d.fs, err |-> d.err, lock |-> "none"]
             ELSE [fs |-> deleteSandboxResources(d.fs, sandbox.id, NilResources, 0).fs,
                   err |-> d.err, lock |-> "none"]
        ELSE IF lock.err # errNil
             THEN [fs |-> deleteSandboxResources(d.fs, sandbox.id, NilResources, 0).fs,
                   err |-> lock.err, lock |-> "none"]
        ELSE IF lock.file \in DOMAIN d.fs.files
             THEN [fs |-> d.fs, err |-> errNil, lock |-> "kept"]
        ELSE IF c.err # errNil
             THEN [fs |-> deleteSandboxResources(d.fs, sandbox.id, NilResources, 0).fs,
                   err |-> c.err, lock |-> "none"]
             ELSE [fs |-> c.fs, err |-> errNil, lock |-> "created"]

(***************************************************************************)
(* The I/O streams of a process (iostream.go).  An iostream is the struct  *)
(* [sandbox, container, process, closed]; the handles stdin(), stdout()    *)
(* and stderr() each embed a pointer to the one struct.  reply is what the *)
(* agent primitive returns when it is called: [n, err].  A method gives    *)
(* back the struct as it leaves it, its results n and err, and the agent   *)
(* call it made (NoAgentCall when it made none).                           *)
(***************************************************************************)
errStreamClosed == "stream closed"

newIOStream(s, c, proc) ==
    [sandbox |-> s, container |-> c, process |-> proc, closed |-> FALSE]

AgentCall(primitive, c, proc, data) ==
    [primitive |-> primitive, container |-> c, process |-> proc, data |-> data]

NoAgentCall == AgentCall("none", "", "", <<>>)

\* Write with no look at the closed flag
stdinStreamWriteUnchecked(s, data, reply) ==
    [s |-> s, n |-> reply.n, err |-> reply.err,
     call |-> [primitive |-> "writeProcessStdin", container |-> s.container,
               process |-> s.process, data |-> data]]

stdinStreamWrite(s, data, reply) ==
    IF s.closed
    THEN [s |-> s, n |-> 0, err |-> errStreamClosed, call |-> NoAgentCall]
    ELSE [s |-> s, n |-> reply.n, err |-> reply.err,
          call |-> AgentCall("writeProcessStdin", s.container, s.process, data)]

\* Close that marks the stream closed whatever the agent returned
stdinStreamCloseAlways(s, reply) ==
    IF s.closed
    THEN [s |-> s, n |-> 0, err |-> errStreamClosed, call |-> NoAgentCall]
    ELSE [s |-> [s EXCEPT !.closed = TRUE],
          n |-> 0, err |-> reply.err,
          call |-> AgentCall("closeProcessStdin", s.container, s.process, <<>>)]

\* Close without the test of the closed flag
stdinStreamCloseUnchecked(s, reply) ==
    [s |-> [s EXCEPT !.closed = @ \/ reply.err = errNil],
     n |-> 0, err |-> reply.err,
     call |-> AgentCall("closeProcessStdin", s.container, s.process, <<>>)]

stdinStreamClose(s, reply) ==
    IF s.closed
    THEN [s |-> s, n |-> 0, err |-> errStreamClosed, call |-> NoAgentCall]
    ELSE [s |-> [s EXCEPT !.closed = (reply.err = errNil)],
          n |-> 0, err |-> reply.err,
          call |-> AgentCall("closeProcessStdin", s.container, s.process, <<>>)]

stdoutStreamRead(s, data, reply) ==
    IF s.closed
    THEN [s |-> s, n |-> 0, err |-> errStreamClosed, call |-> NoAgentCall]
    ELSE [s |-> s, n |-> reply.n, err |-> reply.err,
          call |-> AgentCall("readProcessStdout", s.container, s.process, data)]

stderrStreamRead(s, data, reply) ==
    IF s.closed
    THEN [s |-> s, n |-> 0, err |-> errStreamClosed, call |-> NoAgentCall]
    ELSE [s |-> s, n |-> reply.n, err |-> reply.err,
          call |-> AgentCall("readProcessStderr", s.container, s.process, data)]

\* The methods have no lock: a method reads the closed flag (its first
\* statement), and the rest of it, the blocking call of the agent and, in
\* Close, the write of the flag, runs later, with the methods of other
\* threads in between.  A read racing with the write of Close sees the flag
\* as it is before or after the write, as the steps interleave.
StreamThreads == {"t1", "t2"}

\* a method that has read the flag (sawClosed) and has not returned;
\* closedBefore is the number of Close that had returned nil when it was
\* called, and called says that its call of closeProcessStdin returned nil
\* and that it has yet to set the flag
NoPending ==
    [handle |-> "none", method |-> "none", sawClosed |-> FALSE, closedBefore |-> 0,
     called |-> FALSE]

\* The streams of a process: the struct, how many calls each primitive of the
\* agent got (made) and how many of them returned no error (ok), the number
\* of method calls so far (count), the number of Close of stdin that set the
\* flag and returned nil (closes), whether two Close of stdin were ever in
\* progress at once (overlap), the method each thread is in (pending),
\* and the last method call that returned: the handle and method, its
\* buffer, the reply the agent had for it, how many Close of stdin had
\* succeeded when it was called, the flag as it read it (sawClosed) and as
\* it was when the method ran on (flagBefore), and what it returned.
NoStreamCall ==
    [handle |-> "none", method |-> "none", data |-> <<>>, reply |-> [n |-> 0, err |-> errNil],
     closedBefore |-> 0, sawClosed |-> FALSE, flagBefore |-> FALSE,
     n |-> 0, err |-> errNil, call |-> NoAgentCall]

Primitives ==
    {"writeProcessStdin", "closeProcessStdin", "readProcessStdout", "readProcessStderr"}

Streams(s) ==
    [stream |-> s,
     made |-> [p \in Primitives |-> 0],
     ok |-> [p \in Primitives |-> 0],
     count |-> 0,
     closes |-> 0,
     overlap |-> FALSE,
     pending |-> [t \in StreamThreads |-> NoPending],
     last |-> NoStreamCall]

\* where no process has streams
NoStreams == Streams(newIOStream("", "", ""))

(***************************************************************************)
(* The sandbox state machine.  A sandbox and its containers are each in    *)
(* one of the states ready, running, paused and stopped, or "none" when    *)
(* not in the store.  lc is the state the store holds, [sandbox,           *)
(* containers], with the last command in last and the state it met in     *)
(* was.  outcome says how a command                                        *)
(* goes once its precondition holds: "ok", "agent" when the call of the    *)
(* agent fails, "persist" when the store fails after the agent succeeded.  *)
(***************************************************************************)
LifeContainers == {"c1", "c2"}
Outcomes == {"ok", "agent", "persist"}

errIllegalTransition == "IllegalTransition"
errSandboxNotRunning == "SandboxNotRunning"
errAgent == "AgentError"
errNotFound == "NotFound"

\* the table with a stopped entity started again
TransitionRestart(from, op) ==
    CASE op = "create" /\ from = "none" -> "ready"
      [] op = "start" /\ from \in {"ready", "stopped"} -> "running"
      [] op = "pause" /\ from = "running" -> "paused"
      [] op = "resume" /\ from = "paused" -> "running"
      [] op = "stop" /\ from \in {"running", "paused"} -> "stopped"
      [] op = "delete" /\ from = "stopped" -> "none"
      [] OTHER -> "illegal"

\* the table of legal transitions: the state op leads to, or "illegal"
Transition(from, op) ==
    CASE op = "create" /\ from = "none" -> "ready"
      [] op = "start" /\ from = "ready" -> "running"
      [] op = "pause" /\ from = "running" -> "paused"
      [] op = "resume" /\ from = "paused" -> "running"
      [] op = "stop" /\ from \in {"running", "paused"} -> "stopped"
      [] op = "delete" /\ from = "stopped" -> "none"
      [] OTHER -> "illegal"

NoCommand == [op |-> "none", target |-> "none", outcome |-> "ok", err |-> errNil,
              agent |-> FALSE]

Command(op, target, outcome, err, called) ==
    [op |-> op, target |-> target, outcome |-> outcome, err |-> err, agent |-> called]

\* where no sandbox was created
NoSandbox ==
    [sandbox |-> "none", containers |-> [c \in LifeContainers |-> "none"],
     last |-> NoCommand,
     was |-> [sandbox |-> "none", containers |-> [c \in LifeContainers |-> "none"]]]

\* a container follows its sandbox along the table when the sandbox leaves
\* the running state or goes: paused with it when it runs, stopped with it
\* when it runs or is paused, removed with it when it is stopped
WithSandbox(state, op) ==
    IF op \in {"pause", "stop", "delete"} /\ Transition(state, op) # "illegal"
    THEN Transition(state, op)
    ELSE state

\* a command on the sandbox: validate, call the agent, mutate, persist.
\* No container outlives the sandbox and a container is removed from the
\* stopped state only, so the delete of a sandbox that has a container in
\* another state is not a legal transition.
sandboxCommand(l, op, outcome) ==
    LET to == Transition(l.sandbox, op)
    IN  IF \/ to = "illegal"
           \/ /\ op = "delete"
              /\ \E c \in LifeContainers : l.containers[c] \notin {"none", "stopped"}
        THEN [l EXCEPT !.last = Command(op, "sandbox", outcome, errIllegalTransition, FALSE)]
        ELSE IF outcome = "agent"
        THEN [l EXCEPT !.last = Command(op, "sandbox", outcome, errAgent, TRUE)]
        ELSE IF outcome = "persist"
        THEN [l EXCEPT !.last = Command(op, "sandbox", outcome, EIO, TRUE)]
        ELSE [l EXCEPT !.sandbox = to,
                       !.containers =
                           [c \in LifeContainers |-> WithSandbox(l.containers[c], op)],
                       !.last = Command(op, "sandbox", outcome, errNil, TRUE)]

\* a command on a container that does not look at the state of the sandbox
containerCommandAnySandbox(l, c, op, outcome) ==
    LET to == Transition(l.containers[c], op)
    IN  IF l.sandbox = "none"
        THEN [l EXCEPT !.last = [op |-> op, target |-> c, outcome |-> outcome,
                                 err |-> errNotFound, agent |-> FALSE]]
        ELSE IF to = "illegal"
        THEN [l EXCEPT !.last = [op |-> op, target |-> c, outcome |-> outcome,
                                 err |-> errIllegalTransition, agent |-> FALSE]]
        ELSE IF outcome = "agent"
        THEN [l EXCEPT !.last = [op |-> op, target |-> c, outcome |-> outcome,
                                 err |-> errAgent, agent |-> TRUE]]
        ELSE IF outcome = "persist"
        THEN [l EXCEPT !.last = [op |-> op, target |-> c, outcome |-> outcome,
                                 err |-> EIO, agent |-> TRUE]]
        ELSE [l EXCEPT !.containers[c] = to,
                       !.last = [op |-> op, target |-> c, outcome |-> outcome,
                                 err |-> errNil, agent |-> TRUE]]

\* a command on a container that takes a paused sandbox for a running one
containerCommandInPaused(l, c, op, outcome) ==
    LET to == Transition(l.containers[c], op)
    IN  IF l.sandbox = "none"
        THEN [l EXCEPT !.last = Command(op, c, outcome, errNotFound, FALSE)]
        ELSE IF op = "start" /\ l.sandbox \notin {"running", "paused"}
        THEN [l EXCEPT !.last = Command(op, c, outcome, errSandboxNotRunning, FALSE)]
        ELSE IF to = "illegal"
        THEN [l EXCEPT !.last = Command(op, c, outcome, errIllegalTransition, FALSE)]
        ELSE IF outcome = "agent"
        THEN [l EXCEPT !.last = Command(op, c, outcome, errAgent, TRUE)]
        ELSE IF outcome = "persist"
        THEN [l EXCEPT !.last = Command(op, c, outcome, EIO, TRUE)]
        ELSE [l EXCEPT !.containers[c] = to,
                       !.last = Command(op, c, outcome, errNil, TRUE)]

\* a command on a container of the sandbox; a container runs in a running
\* sandbox only, so start and resume require the sandbox to run
containerCommand(l, c, op, outcome) ==
    LET to == Transition(l.containers[c], op)
    IN  IF l.sandbox = "none"
        THEN [l EXCEPT !.last = Command(op, c, outcome, errNotFound, FALSE)]
        ELSE IF op \in {"start", "resume"} /\ l.sandbox # "running"
        THEN [l EXCEPT !.last = Command(op, c, outcome, errSandboxNotRunning, FALSE)]
        ELSE IF to = "illegal"
        THEN [l EXCEPT !.last = Command(op, c, outcome, errIllegalTransition, FALSE)]
        ELSE IF outcome = "agent"
        THEN [l EXCEPT !.last = Command(op, c, outcome, errAgent, TRUE)]
        ELSE IF outcome = "persist"
        THEN [l EXCEPT !.last = Command(op, c, outcome, EIO, TRUE)]
        ELSE [l EXCEPT !.containers[c] = to,
                       !.last = Command(op, c, outcome, errNil, TRUE)]

(***************************************************************************)
(* The commands on one sandbox.  Each command is a process of its own: it  *)
(* takes the lock of the sandbox, rehydrates the sandbox from the store,   *)
(* calls the agent, mutates the state in memory, persists it and releases  *)
(* the lock.  A process is [pc, op, from, mem, dirty, calls, err]: from is *)
(* the state it rehydrated, mem the state it holds in memory with the      *)
(* number seq of the transition that wrote it, dirty whether mem was       *)
(* mutated, calls the agent calls it made.                                 *)
(***************************************************************************)
Procs == {"p1", "p2"}
CmdOps == {"start", "pause", "resume", "stop"}

\* a shared lock: granted whoever holds the lock
rLockSandbox(holders, p) == TRUE

\* the exclusive lock on the lock file: granted when no process holds it
rwLockSandbox(holders, p) == holders = {}

unlockSandbox(holders, p) == holders \ {p}

\* the steps with the lock released before the state is persisted
commandFlowReleaseFirst(pc, ok, dirty) ==
    CASE pc = "acquire" -> "rehydrate"
      [] pc = "rehydrate" -> IF ok THEN "operate" ELSE "release"
      [] pc = "operate" -> "release"
      [] pc = "release" -> IF dirty THEN "persist" ELSE "done"
      [] pc = "persist" -> "done"
      [] OTHER -> "idle"

\* the steps with the lock released at the end of a successful command only
commandFlowNoRelease(pc, ok, dirty) ==
    CASE pc = "acquire" -> "rehydrate"
      [] pc = "rehydrate" -> IF ok THEN "operate" ELSE "done"
      [] pc = "operate" -> IF ok THEN "persist" ELSE "done"
      [] pc = "persist" -> IF ok THEN "release" ELSE "done"
      [] pc = "release" -> "done"
      [] OTHER -> "idle"

\* the step that follows the step pc of a command, ok telling how pc went:
\* the lock is released on every path
commandFlow(pc, ok, dirty) ==
    CASE pc = "acquire" -> "rehydrate"
      [] pc = "rehydrate" -> IF ok THEN "operate" ELSE "release"
      [] pc = "operate" -> IF ok THEN "persist" ELSE "release"
      [] pc = "persist" -> "release"
      [] pc = "release" -> "done"
      [] OTHER -> "idle"

NoProc ==
    [pc |-> "idle", op |-> "none", from |-> "none",
     mem |-> [state |-> "none", seq |-> 0], dirty |-> FALSE, calls |-> 0,
     err |-> errNil]

\* rehydrate the sandbox from the store and validate the transition
rehydrate(pr, stored) ==
    [pr EXCEPT !.from = stored.state, !.mem = stored,
               !.err = IF Transition(stored.state, pr.op) = "illegal"
                       THEN errIllegalTransition ELSE errNil]

\* the agent call with the state in memory mutated before it
operateMutateFirst(pr, ok) ==
    [pr EXCEPT !.calls = @ + 1,
               !.mem.state = Transition(@, pr.op),
               !.dirty = TRUE,
               !.err = IF ok THEN errNil ELSE errAgent]

\* the agent call; on success the state in memory is mutated
operate(pr, ok) ==
    IF ok
    THEN [pr EXCEPT !.calls = @ + 1,
                    !.mem.state = Transition(@, pr.op),
                    !.dirty = TRUE]
    ELSE [pr EXCEPT !.calls = @ + 1, !.err = errAgent]

\* persist the state in memory: what the store holds afterwards
persist(pr, stored, ok) ==
    IF ok THEN [state |-> pr.mem.state, seq |-> pr.mem.seq + 1] ELSE stored

\* where no command runs and the sandbox was created
NoCommands ==
    [holders |-> {}, store |-> [state |-> "ready", seq |-> 0], guest |-> "ready",
     committed |-> 0, started |-> 0, procs |-> [p \in Procs |-> NoProc],
     last |-> [proc |-> "none", op |-> "none", err |-> errNil]]

(***************************************************************************)
(* The commands ps and start of the command line.  A command resolves the  *)
(* container id to the status of the container and the id of its sandbox   *)
(* and calls the core; a call of the core is [fn, sandboxID, containerID,  *)
(* options], its arguments under the names of the parameters of the core.  *)
(***************************************************************************)
StateRunning == "running"
PodSandbox == "pod_sandbox"
PodContainer == "pod_container"
NoAnnotation == ""

errMissingContainerID == "Missing container ID"
errNoSuchContainer == "Container ID does not exist"
errNotRunning == "Container is not running"
errNoContainerType == "Missing container type annotation"
errCore == "core error"

NoOptions == [Format |-> "", Args |-> <<>>]

\* the mapping from container ids to sandbox ids: the sandbox s1, whose
\* first container bears its id, and the container c1 in it
ContainerMap == [c \in {"s1", "c1"} |-> "s1"]

\* the status lookup of the core
StatusContainer(sandboxID, containerID) ==
    [fn |-> "StatusContainer", sandboxID |-> sandboxID, containerID |-> containerID,
     options |-> NoOptions]

\* the lookup with the status asked of the core before the mapping is read
getExistingContainerInfoStatusFirst(containerID, state, type, statusErr) ==
    IF statusErr # errNil \/ containerID \notin DOMAIN ContainerMap
    THEN [status |-> [ID |-> "", State |-> "", Type |-> NoAnnotation],
          sandboxID |-> "",
          err |-> IF statusErr # errNil THEN statusErr ELSE errNoSuchContainer,
          lookups |-> <<StatusContainer(containerID, containerID)>>]
    ELSE [status |-> [ID |-> containerID, State |-> state, Type |-> type],
          sandboxID |-> ContainerMap[containerID], err |-> errNil,
          lookups |-> <<StatusContainer(ContainerMap[containerID], containerID)>>]

\* the status of the container and the id of its sandbox, or an error: the
\* mapping gives the sandbox, then the core gives the status; state and
\* type are what the core reports, statusErr the error of its lookup
getExistingContainerInfo(containerID, state, type, statusErr) ==
    IF containerID = ""
    THEN [status |-> [ID |-> "", State |-> "", Type |-> NoAnnotation],
          sandboxID |-> "", err |-> errMissingContainerID, lookups |-> <<>>]
    ELSE IF containerID \notin DOMAIN ContainerMap
    THEN [status |-> [ID |-> "", State |-> "", Type |-> NoAnnotation],
          sandboxID |-> "", err |-> errNoSuchContainer, lookups |-> <<>>]
    ELSE IF statusErr # errNil
    THEN [status |-> [ID |-> "", State |-> "", Type |-> NoAnnotation],
          sandboxID |-> ContainerMap[containerID], err |-> statusErr,
          lookups |-> <<StatusContainer(ContainerMap[containerID], containerID)>>]
    ELSE [status |-> [ID |-> containerID, State |-> state, Type |-> type],
          sandboxID |-> ContainerMap[containerID], err |-> errNil,
          lookups |-> <<StatusContainer(ContainerMap[containerID], containerID)>>]

\* the entry points of the core, each taking (sandboxID, containerID)
ProcessListContainer(sandboxID, containerID, options) ==
    [fn |-> "ProcessListContainer", sandboxID |-> sandboxID,
     containerID |-> containerID, options |-> options]

vciStartSandbox(sandboxID) ==
    [fn |-> "StartSandbox", sandboxID |-> sandboxID, containerID |-> "",
     options |-> NoOptions]

vciStartContainer(sandboxID, containerID) ==
    [fn |-> "StartContainer", sandboxID |-> sandboxID, containerID |-> containerID,
     options |-> NoOptions]

\* the options with the arguments of the user and no default
ProcessListOptionsNoDefault(format, args) == [Format |-> format, Args |-> args]

\* the options ps builds from the format and the arguments of the user
ProcessListOptions(format, args) ==
    [Format |-> format, Args |-> IF Len(args) = 0 THEN <<"-ef">> ELSE args]

\* ps that lists the processes of a container in any state
psAnyState(containerID, format, args, state, type, statusErr, reply) ==
    IF containerID = ""
    THEN [err |-> errMissingContainerID, calls |-> <<>>, lookups |-> <<>>]
    ELSE LET info == getExistingContainerInfo(containerID, state, type, statusErr)
         IN  IF info.err # errNil
             THEN [err |-> info.err, calls |-> <<>>, lookups |-> info.lookups]
             ELSE [err |-> reply, lookups |-> info.lookups,
                   calls |-> <<ProcessListContainer(info.status.ID, info.sandboxID,
                                                    ProcessListOptions(format, args))>>]

\* ps: reply is the error of the core.  The container id is the first
\* argument of the call of the core and the sandbox id the second.
ps(containerID, format, args, state, type, statusErr, reply) ==
    IF containerID = ""
    THEN [err |-> errMissingContainerID, calls |-> <<>>, lookups |-> <<>>]
    ELSE LET info == getExistingContainerInfo(containerID, state, type, statusErr)
         IN  IF info.err # errNil
             THEN [err |-> info.err, calls |-> <<>>, lookups |-> info.lookups]
             ELSE IF info.status.State # StateRunning
             THEN [err |-> errNotRunning, calls |-> <<>>, lookups |-> info.lookups]
             ELSE [err |-> reply, lookups |-> info.lookups,
                   calls |-> <<ProcessListContainer(info.status.ID, info.sandboxID,
                                                    ProcessListOptions(format, args))>>]

\* start that takes every container for one of a sandbox
startAlwaysContainer(containerID, state, type, statusErr, reply) ==
    LET info == getExistingContainerInfo(containerID, state, type, statusErr)
    IN  IF info.err # errNil
        THEN [err |-> info.err, calls |-> <<>>, lookups |-> info.lookups]
        ELSE [err |-> reply, lookups |-> info.lookups,
              calls |-> <<vciStartContainer(info.sandboxID, info.status.ID)>>]

\* start: dispatches on the container type annotation of the status
start(containerID, state, type, statusErr, reply) ==
    LET info == getExistingContainerInfo(containerID, state, type, statusErr)
    IN  IF info.err # errNil
        THEN [err |-> info.err, calls |-> <<>>, lookups |-> info.lookups]
        ELSE IF info.status.Type \notin {PodSandbox, PodContainer}
        THEN [err |-> errNoContainerType, calls |-> <<>>, lookups |-> info.lookups]
        ELSE IF info.status.Type = PodSandbox
        THEN [err |-> reply, lookups |-> info.lookups, calls |-> <<vciStartSandbox(info.sandboxID)>>]
        ELSE [err |-> reply, lookups |-> info.lookups,
              calls |-> <<vciStartContainer(info.sandboxID, info.status.ID)>>]

\* the Action of the ps command: argv is what follows "ps" on the command
\* line, the container id and then the options of ps(1)
errMissingContainerIDArg == "Missing container ID, should at least provide one"

psCLICommandAction(argv, format, state, type, statusErr, reply) ==
    IF argv = <<>>
    THEN [err |-> errMissingContainerIDArg, calls |-> <<>>, lookups |-> <<>>]
    ELSE ps(Head(argv), format, Tail(argv), state, type, statusErr, reply)

\* Each command is a process of its own.  A command that has the status of
\* its container and has not yet called the core is "looked": it holds no
\* lock, and the commands of other processes run in between.
CliProcs == {"p1", "p2"}

IdleCmd ==
    [pc |-> "idle", op |-> "none", present |-> FALSE, containerID |-> "", format |-> "",
     args |-> <<>>, state |-> "", type |-> NoAnnotation, statusErr |-> errNil]

ExitedCmd == [IdleCmd EXCEPT !.pc = "exited"]

\* where no command of the command line ran: the fields of the last command
\* that returned (present: a container id was on the command line;
\* stateAtCall: the state of its container when it called the core), the
\* command of each process, and world, the state the core holds of each
\* container
NoCli ==
    [op |-> "none", present |-> FALSE, containerID |-> "", format |-> "", args |-> <<>>,
     state |-> "", type |-> NoAnnotation, statusErr |-> errNil, reply |-> errNil,
     err |-> errNil, calls |-> <<>>, lookups |-> <<>>, stateAtCall |-> "",
     procs |-> [p \in CliProcs |-> IdleCmd],
     world |-> [c \in DOMAIN ContainerMap |-> "ready"]]

(***************************************************************************)
(* AgentType (agent.go): a string type.  Set gives back the agent type as  *)
(* it leaves it and its error: <<>> for nil, or the format of fmt.Errorf   *)
(* and its argument.  String gives back a string.                          *)
(***************************************************************************)
NoopAgentType == "noop"
HyperstartAgent == "hyperstart"
KataContainersAgent == "kata"

errUnknownAgentType(value) == <<"Unknown agent type %s", value>>

\* Set whose default case resets the agent type
AgentTypeSetClearing(agentType, value) ==
    CASE value = "noop" -> [agentType |-> NoopAgentType, err |-> <<>>]
      [] value = "hyperstart" -> [agentType |-> HyperstartAgent, err |-> <<>>]
      [] value = "kata" -> [agentType |-> KataContainersAgent, err |-> <<>>]
      [] OTHER -> [agentType |-> "", err |-> errUnknownAgentType(value)]

AgentTypeSet(agentType, value) ==
    CASE value = "noop" -> [agentType |-> NoopAgentType, err |-> <<>>]
      [] value = "hyperstart" -> [agentType |-> HyperstartAgent, err |-> <<>>]
      [] value = "kata" -> [agentType |-> KataContainersAgent, err |-> <<>>]
      [] OTHER -> [agentType |-> agentType, err |-> errUnknownAgentType(value)]

AgentTypeString(agentType) ==
    CASE agentType = NoopAgentType -> NoopAgentType
      [] agentType = HyperstartAgent -> HyperstartAgent
      [] agentType = KataContainersAgent -> KataContainersAgent
      [] OTHER -> ""

\* An AgentType variable: its value, the number of calls on it, and the last
\* call: the method, the string handed to Set, the value before the call,
\* the error of Set and the string String returned.
NoAgentCallYet == [op |-> "none", value |-> "", before |-> "", err |-> <<>>, out |-> ""]
AgentVar(type) == [type |-> type, count |-> 0, last |-> NoAgentCallYet]
NoAgent == AgentVar("")

(***************************************************************************)
(* The operations of the resourceStorage interface as actions.  Each       *)
(* records its call in last and the file system it met in pre.             *)
(***************************************************************************)
Call(op, ss, sid, cid, kind, val, kinds, conts, fault, err, out) ==
    [op |-> op, ss |-> ss, sid |-> sid, cid |-> cid, kind |-> kind, val |-> val,
     kinds |-> kinds, conts |-> conts, fault |-> fault, err |-> err, out |-> out]

NoCall == Call("none", FALSE, "", "", -1, NoValue, NilResources, <<>>, 0, errNil, NoValue)

\* A process runs one operation of the store and exits (Exit); the next
\* process finds the store as the last one left it.
CanRun == ops < MaxOps /\ last.op = "none"

\* a fault is drawn only where it changes what the operation does
Done(op, ss, sid, cid, kind, val, kinds, conts, fault, r, r0, out) ==
    /\ fault = 0 \/ r # r0
    /\ ops' = ops + 1
    /\ pre' = fs
    /\ fs' = r.fs
    /\ last' = Call(op, ss, sid, cid, kind, val, kinds, conts, fault, r.err, out)
    /\ UNCHANGED <<io, lc, cmd, cli, agent>>

\* The store is on disk and outlives the process that wrote it: a run starts
\* on the empty store, or on the skeleton that a createAllResources of an
\* earlier process left for sandbox s1 and its container c1.
Skeleton == createAllResources(EmptyFS, [id |-> "s1", containers |-> <<"c1">>], 0).fs

Init ==
    /\ fs \in {EmptyFS, Skeleton}
    /\ pre = fs
    /\ last = NoCall
    /\ ops = 0
    /\ io = NoStreams
    /\ lc = NoSandbox
    /\ cmd = NoCommands
    /\ cli = NoCli
    /\ agent = NoAgent

\* sequences of distinct container ids, of at most MaxContainers
ContainerLists ==
    {c \in UNION {[1..n -> ContainerIDs] : n \in 0..MaxContainers} :
        \A i, j \in DOMAIN c : i # j => c[i] # c[j]}

CreateAllResources ==
    /\ CanRun
    /\ \E sid \in SandboxIDs, conts \in ContainerLists :
        \E fault \in 0..(2 * Len(conts) + 3) :
            Done("createAllResources", TRUE, sid, "", -1, NoValue, NilResources, conts, fault,
                 createAllResources(fs, [id |-> sid, containers |-> conts], fault),
                 createAllResources(fs, [id |-> sid, containers |-> conts], 0),
                 createAllResources(fs, [id |-> sid, containers |-> conts], fault).lock)

StoreSandboxResource ==
    /\ CanRun
    /\ \E sid \in SandboxIDs, kind \in Resources, v \in Values, fault \in 0..2 :
        Done("storeSandboxResource", TRUE, sid, "", kind, v, NilResources, <<>>, fault,
             storeSandboxResource(fs, sid, kind, v, fault),
             storeSandboxResource(fs, sid, kind, v, 0), NoValue)

StoreContainerResource ==
    /\ CanRun
    /\ \E sid \in SandboxIDs, cid \in ContainerIDs, kind \in Resources, v \in Values,
       fault \in 0..2 :
        Done("storeContainerResource", FALSE, sid, cid, kind, v, NilResources, <<>>, fault,
             storeContainerResource(fs, sid, cid, kind, v, fault),
             storeContainerResource(fs, sid, cid, kind, v, 0), NoValue)

\* storeHypervisorState and storeAgentState
StoreSandboxState ==
    /\ CanRun
    /\ \E sid \in SandboxIDs, kind \in {hypervisorFileType, agentFileType},
       v \in OpaqueValues, fault \in 0..2 :
        Done("storeSandboxState", TRUE, sid, "", kind, v, NilResources, <<>>, fault,
             storeSandboxState(fs, sid, kind, v, fault),
             storeSandboxState(fs, sid, kind, v, 0), NoValue)

\* The resources named in the lists handed to delete: the one under the
\* configuration root, one of a container and one of the sandbox under the
\* runtime root, and one that is none.
ListedResources ==
    {configFileType, stateFileType, networkFileType, devicesFileType + 1}

\* the resource lists handed to delete: nil, or a list of at most MaxKinds
ResourceLists ==
    {NilResources} \cup
    {ResourceList(l) : l \in UNION {[1..n -> ListedResources] : n \in 0..MaxKinds}}

DeleteSandboxResources ==
    /\ CanRun
    /\ \E sid \in SandboxIDs, kinds \in ResourceLists :
        \E fault \in 0..Len(DefaultResources(kinds)) :
            Done("deleteSandboxResources", TRUE, sid, "", -1, NoValue, kinds, <<>>, fault,
                 deleteSandboxResources(fs, sid, kinds, fault),
                 deleteSandboxResources(fs, sid, kinds, 0), NoValue)

DeleteContainerResources ==
    /\ CanRun
    /\ \E sid \in SandboxIDs, cid \in ContainerIDs, kinds \in ResourceLists :
        \E fault \in 0..Len(DefaultResources(kinds)) :
            Done("deleteContainerResources", FALSE, sid, cid, -1, NoValue, kinds, <<>>, fault,
                 deleteContainerResources(fs, sid, cid, kinds, fault),
                 deleteContainerResources(fs, sid, cid, kinds, 0), NoValue)

\* fetchSandboxConfig, fetchSandboxState, fetchSandboxNetwork,
\* fetchHypervisorState, fetchAgentState
FetchSandboxResource ==
    /\ CanRun
    /\ \E sid \in SandboxIDs, kind \in SandboxFetchKinds :
        /\ ops' = ops + 1
        /\ pre' = fs
        /\ fs' = fs
        /\ UNCHANGED <<io, lc, cmd, cli, agent>>
        /\ last' = LET r == Fetch(fs, TRUE, sid, "", kind)
                   IN  Call("fetch", TRUE, sid, "", kind, NoValue, NilResources, <<>>, 0,
                            r.err, r.val)

\* fetchContainerConfig, fetchContainerState, fetchContainerProcess,
\* fetchContainerMounts, fetchContainerDevices
FetchContainerResource ==
    /\ CanRun
    /\ \E sid \in SandboxIDs, cid \in ContainerIDs, kind \in ContainerFetchKinds :
        /\ ops' = ops + 1
        /\ pre' = fs
        /\ fs' = fs
        /\ UNCHANGED <<io, lc, cmd, cli, agent>>
        /\ last' = LET r == Fetch(fs, FALSE, sid, cid, kind)
                   IN  Call("fetch", FALSE, sid, cid, kind, NoValue, NilResources, <<>>, 0,
                            r.err, r.val)

\* The process exits: the store stays on disk, the record of the call goes.
\* (After an operation that changed nothing the next process starts in the
\* state this one started in.)
Exit ==
    /\ last.op # "none"
    /\ fs # pre
    /\ last' = NoCall
    /\ pre' = fs
    /\ UNCHANGED <<fs, ops, io, lc, cmd, cli, agent>>

Next ==
    \/ Exit
    \/ CreateAllResources
    \/ StoreSandboxResource
    \/ StoreContainerResource
    \/ StoreSandboxState
    \/ DeleteSandboxResources
    \/ DeleteContainerResources
    \/ FetchSandboxResource
    \/ FetchContainerResource

Spec == Init /\ [][Next]_vars

(***************************************************************************)
(* The errors of the store by the class the specification gives them.      *)
(***************************************************************************)
MissingIdentifier(e) == e \in {errNeedSandboxID, errNeedContainerID}
InvalidResourceKind(e) == e \in {errInvalidResource, errDataType}
IOError(e) == e \in {ENOENT, EIO}
NotFound(e) == e = ENOENT

StoreOps == {"storeSandboxResource", "storeContainerResource", "storeSandboxState"}
DeleteOps == {"deleteSandboxResources", "deleteContainerResources"}

\* Two Go values are equal: the same type holding the same items (a nil slice
\* and an empty one both hold none).
SameValue(a, b) == a.shape = b.shape /\ a.items = b.items

\* nothing of the sandbox is left under either root
NothingOf(f, sid) ==
    /\ \A d \in f.dirs : d[2] # sid
    /\ \A p \in DOMAIN f.files : p[2] # sid

\* the resource a file of the store holds, by its name
FileResource(p) == CHOOSE r \in Resources \ {devicesFileType + 1} : ResourceFileName(r) = p[4]

\* the resources fetchResource accepts
FetchedResources == Resources \ {lockFileType, devicesFileType + 1}

(***************************************************************************)
(* C1.  Round trip: after a store that returned no error, a fetch of the   *)
(* same (kind, sandbox, container) returns a value equal to the one        *)
(* stored.                                                                 *)
(***************************************************************************)
C1_RoundTrip ==
    (last.op \in StoreOps /\ last.err = errNil) =>
        LET r == fetchResource(fs, last.ss, last.sid, last.cid, last.kind,
                               Zero(last.val.shape))
        IN  r.err = errNil /\ SameValue(r.val, last.val)

(***************************************************************************)
(* C2.  After deleteSandboxResources with a nil resource list has          *)
(* returned, nothing of the sandbox is left under the configuration root   *)
(* or the runtime root, and the fetch of every resource of the sandbox and *)
(* of each of its containers fails with NotFound.                          *)
(***************************************************************************)
C2_DeleteRemovesSubtree ==
    (last.op = "deleteSandboxResources" /\ last.kinds.isNil /\ last.err = errNil) =>
        /\ NothingOf(fs, last.sid)
        /\ \A r \in FetchedResources :
              /\ NotFound(fetchResource(fs, TRUE, last.sid, "", r,
                                        Zero(FetchShape(TRUE, r))).err)
              /\ \A cid \in ContainerIDs \ {""} :
                    NotFound(fetchResource(fs, FALSE, last.sid, cid, r,
                                           Zero(FetchShape(FALSE, r))).err)

\* a default delete returned on a sandbox with a stored resource that fetched
C2_Witness ==
    /\ last.op = "deleteSandboxResources" /\ last.kinds.isNil /\ last.err = errNil
    /\ \E r \in FetchedResources, cid \in ContainerIDs \ {""} :
          fetchResource(pre, FALSE, last.sid, cid, r, Zero(FetchShape(FALSE, r))).err = errNil

(***************************************************************************)
(* C3.  As claimed: after a delete with a non-empty resource list that     *)
(* returned, every resource file of the sandbox whose kind is not in the   *)
(* list still exists and holds what it held.                               *)
(***************************************************************************)
C3_OnlyListedKindsRemoved ==
    (last.op \in DeleteOps /\ ~last.kinds.isNil /\ last.kinds.list # <<>>
       /\ last.err = errNil) =>
        \A p \in DOMAIN pre.files :
            (p[2] = last.sid /\ \A i \in DOMAIN last.kinds.list :
                                    last.kinds.list[i] # FileResource(p)) =>
                (p \in DOMAIN fs.files /\ fs.files[p] = pre.files[p])

\* the directories a delete is asked to remove: for each listed resource the
\* directory of the sandbox (of the container, for deleteContainerResources)
\* under the root of that resource
ListedDirs(call) ==
    {<<root, call.sid, call.cid>> :
        root \in {IF r = configFileType THEN configStoragePath ELSE runStoragePath :
                     r \in {call.kinds.list[i] : i \in DOMAIN call.kinds.list}
                           \ {devicesFileType + 1}}}

(***************************************************************************)
(* C3, amended.  A delete with a non-empty resource list removes whole     *)
(* directories: every directory and every resource file that is not in or  *)
(* below a directory the list names still exists and holds what it held.   *)
(***************************************************************************)
C3_OtherDirectoriesKept ==
    (last.op \in DeleteOps /\ ~last.kinds.isNil /\ last.kinds.list # <<>>) =>
        /\ \A p \in DOMAIN pre.files :
              (\A d \in ListedDirs(last) : ~Under(p, d)) =>
                  (p \in DOMAIN fs.files /\ fs.files[p] = pre.files[p])
        /\ \A q \in pre.dirs :
              (\A d \in ListedDirs(last) : ~Under(q, d)) => q \in fs.dirs

\* a delete of the state resource alone removed the lock file and kept a
\* stored configuration
C3_Witness ==
    /\ last.op \in DeleteOps /\ last.kinds = ResourceList(<<stateFileType>>)
    /\ last.err = errNil
    /\ \E p \in DOMAIN pre.files : p[4] = lockFileName /\ p \notin DOMAIN fs.files
    /\ \E p \in DOMAIN fs.files : p[4] = configFile /\ fs.files[p].json = "object"

(***************************************************************************)
(* C4.  A delete with an empty resource list, nil or not, does to a        *)
(* sandbox of the store what the delete with the list {config, state}      *)
(* does.                                                                   *)
(***************************************************************************)
C4_EmptyListIsDefault ==
    (last.op \in DeleteOps /\ last.kinds.list = <<>> /\ ~NothingOf(pre, last.sid)) =>
        [fs |-> fs, err |-> last.err] =
            RemoveEach(pre, last.sid, last.cid, <<configFileType, stateFileType>>, 1, last.fault)

(***************************************************************************)
(* C5.  A store whose write of the value fails returns an error.           *)
(***************************************************************************)
C5_WriteFailureReported ==
    (last.op \in StoreOps /\ last.fault = 2) => IOError(last.err)

\* everything createAllResources makes for the sandbox is there: the
\* directories of the sandbox and of each container under both roots, and
\* the lock file
SkeletonExists(f, sid, conts) ==
    /\ sid # ""
    /\ \A i \in DOMAIN conts : conts[i] # ""
    /\ \A root \in {configStoragePath, runStoragePath} :
          /\ <<root, sid, "">> \in f.dirs
          /\ \A i \in DOMAIN conts : <<root, sid, conts[i]>> \in f.dirs
    /\ <<runStoragePath, sid, "", lockFileName>> \in DOMAIN f.files

(***************************************************************************)
(* C6.  createAllResources is idempotent: called, with no fault of the     *)
(* file system, on a sandbox whose skeleton exists, it returns no error    *)
(* and leaves every directory and every file, the lock file and the stored *)
(* resources, as they were; the lock file is the one os.Stat found.        *)
(***************************************************************************)
C6_CreateIdempotent ==
    (last.op = "createAllResources" /\ last.fault = 0
       /\ SkeletonExists(pre, last.sid, last.conts)) =>
        (last.err = errNil /\ fs = pre /\ last.out = "kept")

\* createAllResources ran again on a skeleton that holds a stored resource
C6_Witness ==
    /\ last.op = "createAllResources" /\ last.fault = 0
    /\ SkeletonExists(pre, last.sid, last.conts)
    /\ Len(last.conts) > 0
    /\ \E p \in DOMAIN pre.files : pre.files[p].json = "object"

(***************************************************************************)
(* C7.  When createAllResources returns the error of a failed creation of  *)
(* a container directory, no directory and no file of the sandbox is left  *)
(* under either root.                                                      *)
(***************************************************************************)
C7_CreateRollsBack ==
    (last.op = "createAllResources" /\ last.sid # "" /\ last.err # errNil
       /\ (last.fault \in 3..(2 + 2 * Len(last.conts))
           \/ (last.fault = 0 /\ \E i \in DOMAIN last.conts : last.conts[i] = ""))) =>
        NothingOf(fs, last.sid)

\* the second os.MkdirAll of a container failed on a sandbox that was there
C7_Witness ==
    /\ last.op = "createAllResources" /\ last.fault = 4 /\ last.err = EIO
    /\ ~NothingOf(pre, last.sid)

\* a store that passes every check of its arguments
ValidStore(call) ==
    /\ call.sid # ""
    /\ call.op = "storeContainerResource" => call.cid # ""
    /\ call.op # "storeSandboxState" => ShapeResource(call.val.shape) = call.kind

(***************************************************************************)
(* C8.  store creates no directory: a store whose directory (that of the   *)
(* sandbox, or of the container for a container resource) does not exist   *)
(* fails and leaves the store as it was, and fails with an I/O error when  *)
(* its arguments are valid.                                                *)
(***************************************************************************)
C8_StoreCreatesNoDirectory ==
    (last.op \in StoreOps /\ last.sid # ""
       /\ <<ResourceRoot(last.kind), last.sid, last.cid>> \notin pre.dirs) =>
        /\ last.err # errNil
        /\ fs = pre
        /\ ValidStore(last) => IOError(last.err)

\* a valid store of a container resource in a sandbox the store has nothing of
C8_Witness ==
    /\ last.op = "storeContainerResource" /\ ValidStore(last) /\ last.fault = 0
    /\ NothingOf(pre, last.sid)
    /\ last.err = ENOENT /\ NothingOf(fs, last.sid)

\* the resource does not match the Go type of the value
Mismatch(call) == ShapeResource(call.val.shape) # call.kind

\* the identifiers the operation requires are there
HasIdentifiers(call) ==
    call.sid # "" /\ (call.op = "storeContainerResource" => call.cid # "")

(***************************************************************************)
(* C9.  As claimed: storeSandboxResource and storeContainerResource fail   *)
(* with InvalidResourceKind and write nothing whenever the resource does   *)
(* not match the type of the value.                                        *)
(***************************************************************************)
C9_MismatchIsInvalidKind ==
    (last.op \in {"storeSandboxResource", "storeContainerResource"} /\ Mismatch(last)) =>
        (InvalidResourceKind(last.err) /\ fs = pre)

(***************************************************************************)
(* C9, amended.  Whenever the resource does not match the type of the      *)
(* value the store writes nothing and fails: with InvalidResourceKind when *)
(* the identifiers it requires are given, with MissingIdentifier when one  *)
(* is empty.                                                               *)
(***************************************************************************)
C9_MismatchRejected ==
    (last.op \in {"storeSandboxResource", "storeContainerResource"} /\ Mismatch(last)) =>
        /\ fs = pre
        /\ HasIdentifiers(last) => InvalidResourceKind(last.err)
        /\ ~HasIdentifiers(last) => MissingIdentifier(last.err)

\* a State stored as the process resource of a container that has its directory
C9_Witness ==
    /\ last.op = "storeContainerResource" /\ HasIdentifiers(last)
    /\ last.val.shape = "State" /\ last.kind = processFileType
    /\ <<runStoragePath, last.sid, last.cid>> \in pre.dirs
    /\ last.err = errInvalidResource

(***************************************************************************)
(* C10.  store and fetch fail with MissingIdentifier and leave every file  *)
(* as it was when the sandbox id is empty, and when the container id is    *)
(* empty in a container-level operation on a resource that is not          *)
(* sandbox-only.                                                           *)
(***************************************************************************)
C10_MissingIdentifier ==
    (last.op \in StoreOps \cup {"fetch"}
       /\ (last.sid = ""
           \/ (~last.ss /\ last.cid = ""
               /\ last.kind \notin {lockFileType, networkFileType,
                                    hypervisorFileType, agentFileType}))) =>
        (MissingIdentifier(last.err) /\ fs = pre)

\* a fetch of the state of a container with no container id, where the
\* sandbox holds a state
C10_Witness ==
    /\ last.op = "fetch" /\ ~last.ss /\ last.sid # "" /\ last.cid = ""
    /\ last.kind = stateFileType /\ last.err = errNeedContainerID
    /\ <<runStoragePath, last.sid, "", stateFile>> \in DOMAIN fs.files


CorruptData(e) == e = errJSON

\* the identifiers a fetch requires are given
FetchHasIdentifiers(call) == call.sid # "" /\ (call.ss \/ call.cid # "")

\* the file a fetch reads
FetchedFile(call) ==
    <<ResourceRoot(call.kind), call.sid, call.cid, ResourceFileName(call.kind)>>

(***************************************************************************)
(* C11.  A fetch given the identifiers it requires fails with NotFound     *)
(* when the file of the resource is not in the store (never stored, or     *)
(* deleted), fails with CorruptData when the file holds no complete JSON   *)
(* text, and in every case leaves the store as it was.                     *)
(***************************************************************************)
C11_FetchErrors ==
    (last.op = "fetch") =>
        /\ fs = pre
        /\ (FetchHasIdentifiers(last) /\ FetchedFile(last) \notin DOMAIN pre.files) =>
               NotFound(last.err)
        /\ (FetchHasIdentifiers(last) /\ FetchedFile(last) \in DOMAIN pre.files
              /\ pre.files[FetchedFile(last)] = Truncated) =>
               CorruptData(last.err)

\* a fetch of a resource of an existing sandbox whose file was left truncated
C11_Witness ==
    /\ last.op = "fetch" /\ FetchHasIdentifiers(last)
    /\ FetchedFile(last) \in DOMAIN pre.files
    /\ pre.files[FetchedFile(last)] = Truncated
    /\ last.err = errJSON


(***************************************************************************)
(* The device collection of a container: storeContainerDevices and         *)
(* fetchContainerDevices on the container c1 of the sandbox s1, with       *)
(* collections of at most MaxDevices devices of the three variants the     *)
(* store decodes and of one it does not.                                   *)
(***************************************************************************)
MaxDevices == 3

Devices ==
    {Dev(t, "d1") : t \in {DeviceVFIO, DeviceGeneric, DeviceVhostUser}}
    \cup {Dev(DeviceBlock, "d2")}

\* the []api.Device values: nil, or a list of at most MaxDevices devices
DeviceLists ==
    {NilSlice("[]Device")} \cup
    {Slice("[]Device", l) : l \in UNION {[1..n -> Devices] : n \in 0..MaxDevices}}

\* the list a caller of fetchResource may hold before the call
\* (fetchContainerDevices holds a nil one)
CallerLists == {NilSlice("[]Device"), Slice("[]Device", <<Dev(DeviceBlock, "d0")>>)}

DevicesFile == <<runStoragePath, "s1", "c1", devicesFile>>

\* a collection left in the store whose one envelope, of a Block device, has
\* null for its Data
NullDataFile ==
    JSONArray(<<[Type |-> DeviceBlock, Data |-> [json |-> "null", fields |-> <<>>]]>>)

\* the skeleton of the sandbox s1 and its container c1, with no collection
\* stored or with the one of NullDataFile
DeviceInit ==
    /\ fs \in {Skeleton, WriteFile(Skeleton, DevicesFile, NullDataFile)}
    /\ pre = fs
    /\ last = NoCall
    /\ ops = 0
    /\ io = NoStreams
    /\ lc = NoSandbox
    /\ cmd = NoCommands
    /\ cli = NoCli
    /\ agent = NoAgent

StoreContainerDevices ==
    /\ CanRun
    /\ \E devices \in DeviceLists, fault \in 0..2 :
        Done("storeContainerDevices", FALSE, "s1", "c1", devicesFileType, devices,
             NilResources, <<>>, fault,
             storeContainerResource(fs, "s1", "c1", devicesFileType, devices, fault),
             storeContainerResource(fs, "s1", "c1", devicesFileType, devices, 0),
             NoValue)

\* fetchContainerDevices: fetchResource reads into a nil list of the function,
\* and on an error the function returns a new empty list with the error
fetchContainerDevices(f, sandboxID, containerID) ==
    LET r == fetchResource(f, FALSE, sandboxID, containerID, devicesFileType,
                           NilSlice("[]Device"))
    IN  IF r.err # errNil THEN [err |-> r.err, val |-> Slice("[]Device", <<>>)]
        ELSE r

FetchContainerDevices ==
    /\ CanRun
    /\ ops' = ops + 1
    /\ pre' = fs
    /\ fs' = fs
    /\ UNCHANGED <<io, lc, cmd, cli, agent>>
    /\ last' = LET r == fetchContainerDevices(fs, "s1", "c1")
               IN  Call("fetchContainerDevices", FALSE, "s1", "c1", devicesFileType,
                        NoValue, NilResources, <<>>, 0, r.err, r.val)

DeviceNext ==
    \/ Exit
    \/ StoreContainerDevices
    \/ FetchContainerDevices

DeviceSpec == DeviceInit /\ [][DeviceNext]_vars

UnknownDeviceType(e) == e = errUnknownDevice

\* the file holds a collection with an envelope of another type than the three
HasUnknownEnvelope(f) ==
    /\ DevicesFile \in DOMAIN f.files
    /\ f.files[DevicesFile].json = "array"
    /\ \E i \in DOMAIN f.files[DevicesFile].items :
          f.files[DevicesFile].items[i].Type \notin {DeviceVFIO, DeviceBlock, DeviceGeneric}

(***************************************************************************)
(* C12.  A fetch of a device collection one of whose envelopes, at any     *)
(* place, has a type other than VFIO, Block and Generic fails with         *)
(* UnknownDeviceType and delivers no partial list: fetchContainerDevices   *)
(* returns an empty list, and the list that the caller of fetchResource    *)
(* handed in is as it was.                                                 *)
(***************************************************************************)
C12_UnknownDeviceType ==
    (last.op = "fetchContainerDevices" /\ HasUnknownEnvelope(pre)) =>
        /\ UnknownDeviceType(last.err)
        /\ last.out = Slice("[]Device", <<>>)
        /\ \A devices \in CallerLists :
              fetchResource(pre, FALSE, "s1", "c1", devicesFileType, devices).val = devices

\* the unknown envelope comes after one that decodes
C12_Witness ==
    /\ last.op = "fetchContainerDevices" /\ HasUnknownEnvelope(pre)
    /\ Len(pre.files[DevicesFile].items) = 2
    /\ pre.files[DevicesFile].items[1].Type = DeviceGeneric
    /\ pre.files[DevicesFile].items[2].Type = DeviceVhostUser
    /\ last.out.items = <<>>
    /\ last.err = errUnknownDevice

\* an envelope whose Data is null was fetched: no error, and the device is the
\* zero value of the variant of its Type
NullDataIsZeroDevice ==
    /\ last.op = "fetchContainerDevices" /\ pre.files[DevicesFile] = NullDataFile
    /\ last.err = errNil
    /\ last.out = Slice("[]Device", <<Dev(DeviceBlock, "")>>)

\* every device of the collection is of one of the three variants
KnownVariants(devices) ==
    \A i \in DOMAIN devices.items :
        devices.items[i].Type \in {DeviceVFIO, DeviceBlock, DeviceGeneric}

(***************************************************************************)
(* C13.  After a successful storeContainerDevices of a collection of VFIO, *)
(* Block and Generic devices, fetchContainerDevices returns no error and   *)
(* as many devices, in the same order, each with the type and the fields   *)
(* it was stored with.                                                     *)
(***************************************************************************)
C13_DevicesRoundTrip ==
    (last.op = "storeContainerDevices" /\ last.err = errNil /\ KnownVariants(last.val)) =>
        LET r == fetchContainerDevices(fs, "s1", "c1")
        IN  /\ r.err = errNil
            /\ Len(r.val.items) = Len(last.val.items)
            /\ \A i \in DOMAIN last.val.items :
                  /\ r.val.items[i].Type = last.val.items[i].Type
                  /\ DOMAIN r.val.items[i].fields = DeviceFields(last.val.items[i].Type)
                  /\ r.val.items[i].fields = last.val.items[i].fields

\* one device of each of the three variants was stored, the Block one with
\* other values than the rest, and the three come back
C13_Witness ==
    /\ last.op = "storeContainerDevices" /\ last.err = errNil
    /\ last.val.items = <<Dev(DeviceGeneric, "d1"), Dev(DeviceBlock, "d2"),
                          Dev(DeviceVFIO, "d1")>>
    /\ fetchContainerDevices(fs, "s1", "c1").val.items = last.val.items
    /\ fs.files[DevicesFile].items[2] =
           [Type |-> DeviceBlock,
            Data |-> [json |-> "object",
                      fields |-> [n \in {"ID", "DeviceInfo", "BlockDrive"} |-> "d2"]]]


(***************************************************************************)
(* The path functions, applied to every flag, pair of identifiers and      *)
(* resource: out is the directory (resourceDir), the file (resourceURI) or *)
(* the answer (resourceNeedsContainerID).                                  *)
(***************************************************************************)
PathSandboxIDs == {"", "s1", "s2"}
PathContainerIDs == {"", "c1", "c2"}

PathInit ==
    /\ fs = EmptyFS
    /\ pre = fs
    /\ last = NoCall
    /\ ops = 0
    /\ io = NoStreams
    /\ lc = NoSandbox
    /\ cmd = NoCommands
    /\ cli = NoCli
    /\ agent = NoAgent

PathCall(op, ss, sid, cid, kind, err, out) ==
    /\ ops' = ops + 1
    /\ last' = Call(op, ss, sid, cid, kind, NoValue, NilResources, <<>>, 0, err, out)
    /\ UNCHANGED <<fs, pre, io, lc, cmd, cli, agent>>

ResourceDir ==
    /\ CanRun
    /\ \E ss \in BOOLEAN, sid \in PathSandboxIDs, cid \in PathContainerIDs,
          kind \in Resources :
        LET r == resourceDir(ss, sid, cid, kind)
        IN  PathCall("resourceDir", ss, sid, cid, kind, r.err, r.dir)

ResourceURI ==
    /\ CanRun
    /\ \E ss \in BOOLEAN, sid \in PathSandboxIDs, cid \in PathContainerIDs,
          kind \in Resources :
        LET r == resourceURI(ss, sid, cid, kind)
        IN  PathCall("resourceURI", ss, sid, cid, kind, r.err, r.file)

ResourceNeedsContainerID ==
    /\ CanRun
    /\ \E ss \in BOOLEAN, kind \in Resources :
        PathCall("resourceNeedsContainerID", ss, "", "", kind, errNil,
                 resourceNeedsContainerID(ss, kind))

PathNext ==
    \/ ResourceDir
    \/ ResourceURI
    \/ ResourceNeedsContainerID

PathSpec == PathInit /\ [][PathNext]_vars

PathOps == {"resourceDir", "resourceURI"}

\* the resources of the type sandboxResource
KnownResources == configFileType..devicesFileType

\* the identifiers resourceDir asks for are given
PathHasIdentifiers(call) ==
    /\ call.sid # ""
    /\ (call.ss \/ call.cid # ""
        \/ call.kind \in {lockFileType, networkFileType, hypervisorFileType, agentFileType})

(***************************************************************************)
(* C14.  As claimed: for every sandbox id, container id and flag, a path   *)
(* that resolves is under the configuration root for config and under the  *)
(* runtime root for every other kind, and an unknown kind resolves to no   *)
(* path and fails with InvalidResourceKind.                                *)
(***************************************************************************)
C14_RootFixedByKind ==
    (last.op \in PathOps) =>
        /\ (last.err = errNil) =>
              last.out[1] = IF last.kind = configFileType THEN configStoragePath
                            ELSE runStoragePath
        /\ (last.kind \notin KnownResources) =>
              (last.out = NoPath /\ InvalidResourceKind(last.err))

(***************************************************************************)
(* C14, amended.  A path that resolves is under the configuration root for *)
(* config and under the runtime root for every other kind, whatever the    *)
(* identifiers and the flag; a known kind resolves whenever the            *)
(* identifiers required are given; an unknown kind resolves to no path,    *)
(* and fails with InvalidResourceKind when the identifiers required are    *)
(* given and with MissingIdentifier when one is empty.                     *)
(***************************************************************************)
C14_RootFixedByKindGivenIds ==
    (last.op \in PathOps) =>
        /\ (last.err = errNil) =>
              last.out[1] = IF last.kind = configFileType THEN configStoragePath
                            ELSE runStoragePath
        /\ (last.kind \in KnownResources /\ PathHasIdentifiers(last)) => last.err = errNil
        /\ (last.kind \notin KnownResources) =>
              /\ last.out = NoPath
              /\ PathHasIdentifiers(last) => InvalidResourceKind(last.err)
              /\ ~PathHasIdentifiers(last) => MissingIdentifier(last.err)

\* the state of a container resolved under the runtime root
C14_Witness ==
    /\ last.op = "resourceURI" /\ ~last.ss /\ last.sid = "s2" /\ last.cid = "c1"
    /\ last.kind = stateFileType
    /\ last.out = <<runStoragePath, "s2", "c1", stateFile>>

(***************************************************************************)
(* C15.  resourceNeedsContainerID is false for lock, network, hypervisor   *)
(* and agent whatever the flag, and for every other resource it is true    *)
(* exactly when the flag sandboxSpecific is false.                         *)
(***************************************************************************)
C15_NeedsContainerID ==
    (last.op = "resourceNeedsContainerID") =>
        IF last.kind \in {lockFileType, networkFileType, hypervisorFileType, agentFileType}
        THEN last.out = FALSE
        ELSE last.out = ~last.ss

\* the network resource asked for by a container-level operation
C15_Witness ==
    /\ last.op = "resourceNeedsContainerID" /\ ~last.ss
    /\ last.kind = networkFileType /\ last.out = FALSE


(***************************************************************************)
(* The streams of one process as actions: a thread calls a method of one   *)
(* of the three handles, and the agent, when it is called, answers with    *)
(* any byte count up to the size of the buffer and with or without an      *)
(* error.                                                                  *)
(***************************************************************************)
MaxStreamCalls == 3   \* method calls on the handles of the process
MaxBytes == 2         \* size of the largest buffer

AgentErrors == {"agent: connection closed", "EOF"}

Buffers == {[i \in 1..n |-> i] : n \in 0..MaxBytes}

\* what a read or write primitive of the agent may return for a buffer
AgentReplies(data) ==
    {[n |-> k, err |-> e] : k \in 0..Len(data), e \in {errNil} \cup AgentErrors}

\* what closeProcessStdin may return
CloseReplies == {[n |-> 0, err |-> e] : e \in {errNil} \cup AgentErrors}

StreamInit ==
    /\ \E cp \in {<<"c1", "p1">>, <<"c2", "p2">>} :
          io = Streams(newIOStream("s1", cp[1], cp[2]))
    /\ fs = EmptyFS
    /\ pre = fs
    /\ last = NoCall
    /\ ops = 0
    /\ lc = NoSandbox
    /\ cmd = NoCommands
    /\ cli = NoCli
    /\ agent = NoAgent

\* a thread calls a method of a handle: the method reads the closed flag
StreamTest ==
    /\ io.count < MaxStreamCalls
    /\ \E t \in StreamThreads :
          /\ io.pending[t] = NoPending
          /\ \E m \in {<<"stdin", "Write">>, <<"stdin", "Close">>,
                       <<"stdout", "Read">>, <<"stderr", "Read">>} :
                io' = [io EXCEPT !.count = @ + 1,
                                 !.overlap =
                                     @ \/ (m[2] = "Close" /\
                                           \E u \in StreamThreads :
                                               io.pending[u].method = "Close"),
                                 !.pending[t] =
                                     [handle |-> m[1], method |-> m[2],
                                      sawClosed |-> io.stream.closed,
                                      closedBefore |-> io.closes,
                                      called |-> FALSE]]
    /\ UNCHANGED <<fs, pre, last, ops, lc, cmd, cli, agent>>

\* the struct as the method of thread t saw it when it read the flag
StreamView(t) == [io.stream EXCEPT !.closed = io.pending[t].sawClosed]

\* the method of thread t runs on from its read of the flag and returns r;
\* the flag is written when the method changed it
StreamCall(t, data, reply, r) ==
    /\ io' = [stream |-> IF r.s.closed # io.pending[t].sawClosed
                         THEN [io.stream EXCEPT !.closed = r.s.closed]
                         ELSE io.stream,
              made |-> IF r.call = NoAgentCall THEN io.made
                       ELSE [io.made EXCEPT ![r.call.primitive] = @ + 1],
              ok |-> IF r.call = NoAgentCall \/ reply.err # errNil THEN io.ok
                     ELSE [io.ok EXCEPT ![r.call.primitive] = @ + 1],
              count |-> io.count,
              closes |-> io.closes,
              overlap |-> io.overlap,
              pending |-> [io.pending EXCEPT ![t] = NoPending],
              last |-> [handle |-> io.pending[t].handle, method |-> io.pending[t].method,
                        data |-> data, reply |-> reply,
                        closedBefore |-> io.pending[t].closedBefore,
                        sawClosed |-> io.pending[t].sawClosed,
                        flagBefore |-> io.stream.closed,
                        n |-> r.n, err |-> r.err, call |-> r.call]]
    /\ UNCHANGED <<fs, pre, last, ops, lc, cmd, cli, agent>>

InMethod(t, handle, method) ==
    io.pending[t].handle = handle /\ io.pending[t].method = method

StdinWrite ==
    \E t \in StreamThreads :
        /\ InMethod(t, "stdin", "Write")
        /\ \E data \in Buffers : \E reply \in AgentReplies(data) :
              StreamCall(t, data, reply, stdinStreamWrite(StreamView(t), data, reply))

\* Close runs on from its read of the flag to its call of the agent: it
\* returns when it saw the flag set or when the agent fails, and has the
\* flag to set when the agent returned nil
StdinClose ==
    \E t \in StreamThreads :
        /\ InMethod(t, "stdin", "Close")
        /\ ~io.pending[t].called
        /\ \E reply \in CloseReplies :
              LET r == stdinStreamClose(StreamView(t), reply)
              IN  IF r.call = NoAgentCall \/ reply.err # errNil
                  THEN StreamCall(t, <<>>, reply, r)
                  ELSE /\ io' = [io EXCEPT !.pending[t].called = TRUE,
                                           !.made[r.call.primitive] = @ + 1,
                                           !.ok[r.call.primitive] = @ + 1]
                       /\ UNCHANGED <<fs, pre, last, ops, lc, cmd, cli, agent>>

\* Close, back from the agent with nil, sets the flag and returns nil
StdinCloseSet ==
    \E t \in StreamThreads :
        /\ InMethod(t, "stdin", "Close")
        /\ io.pending[t].called
        /\ LET reply == [n |-> 0, err |-> errNil]
               r == stdinStreamClose(StreamView(t), reply)
           IN  io' = [io EXCEPT !.stream = [@ EXCEPT !.closed = r.s.closed],
                                !.closes = @ + 1,
                                !.pending[t] = NoPending,
                                !.last = [handle |-> "stdin", method |-> "Close",
                                          data |-> <<>>, reply |-> reply,
                                          closedBefore |-> io.pending[t].closedBefore,
                                          sawClosed |-> io.pending[t].sawClosed,
                                          flagBefore |-> io.stream.closed,
                                          n |-> r.n, err |-> r.err, call |-> r.call]]
        /\ UNCHANGED <<fs, pre, last, ops, lc, cmd, cli, agent>>

StdoutRead ==
    \E t \in StreamThreads :
        /\ InMethod(t, "stdout", "Read")
        /\ \E data \in Buffers : \E reply \in AgentReplies(data) :
              StreamCall(t, data, reply, stdoutStreamRead(StreamView(t), data, reply))

StderrRead ==
    \E t \in StreamThreads :
        /\ InMethod(t, "stderr", "Read")
        /\ \E data \in Buffers : \E reply \in AgentReplies(data) :
              StreamCall(t, data, reply, stderrStreamRead(StreamView(t), data, reply))

StreamNext ==
    \/ StreamTest
    \/ StdinWrite
    \/ StdinClose
    \/ StdinCloseSet
    \/ StdoutRead
    \/ StderrRead

StreamSpec == StreamInit /\ [][StreamNext]_vars

StreamClosed(e) == e = errStreamClosed

\* the primitive of the agent behind a handle's Write or Read
HandlePrimitive(handle) ==
    CASE handle = "stdin" -> "writeProcessStdin"
      [] handle = "stdout" -> "readProcessStdout"
      [] handle = "stderr" -> "readProcessStderr"

\* the last method call went to the agent and returned what the agent did
Delegated(call) ==
    /\ call.call = AgentCall(HandlePrimitive(call.handle), io.stream.container,
                             io.stream.process, call.data)
    /\ call.n = call.reply.n
    /\ call.err = call.reply.err

(***************************************************************************)
(* C16.  After a Close of stdin that succeeded, a Read on the stdout or    *)
(* the stderr handle of the process still goes to the agent and returns    *)
(* what the agent returns, not StreamClosed.                               *)
(***************************************************************************)
C16_HandlesIndependent ==
    (io.last.method = "Read" /\ io.last.closedBefore > 0) =>
        (Delegated(io.last) /\ io.last.call # NoAgentCall)

(***************************************************************************)
(* C17.  Once a Close has succeeded, every later Write on stdin and Read   *)
(* on stdout or stderr returns 0 bytes and StreamClosed and makes no call  *)
(* to the agent, whatever the number of calls since.                       *)
(***************************************************************************)
C17_ClosedStaysClosed ==
    (io.last.method \in {"Write", "Read"} /\ io.last.closedBefore > 0) =>
        /\ io.last.n = 0
        /\ StreamClosed(io.last.err)
        /\ io.last.call = NoAgentCall
        /\ io.stream.closed

\* a Write, not the first call after the Close, with bytes the agent would take
C17_Witness ==
    /\ io.last.method = "Write" /\ io.last.closedBefore > 0
    /\ io.count = MaxStreamCalls /\ io.made["closeProcessStdin"] = 1
    /\ io.last.reply = [n |-> 2, err |-> errNil]
    /\ io.last.err = errStreamClosed

(***************************************************************************)
(* C18.  After a Close of stdin that returned nil every further Close      *)
(* fails with StreamClosed and makes no call to the agent, and over a      *)
(* sequence of Close, each called after the one before it returned,        *)
(* closeProcessStdin succeeds once at most: it is called once when the     *)
(* first Close succeeds.  (Two Close in progress at once on two threads    *)
(* are not such a sequence: both may read the flag before either sets it.) *)
(***************************************************************************)
C18_CloseNotIdempotent ==
    /\ (io.last.method = "Close" /\ io.last.closedBefore > 0) =>
          /\ StreamClosed(io.last.err)
          /\ io.last.call = NoAgentCall
          /\ io.stream.closed
    /\ ~io.overlap => io.ok["closeProcessStdin"] <= 1

\* the last of three calls is a Close after the Close that succeeded, with
\* the one call closeProcessStdin got
C18_Witness ==
    /\ io.last.method = "Close" /\ io.last.closedBefore = 1
    /\ ~io.overlap /\ io.count = 3
    /\ io.made["closeProcessStdin"] = 1 /\ io.ok["closeProcessStdin"] = 1
    /\ io.last.err = errStreamClosed /\ io.last.call = NoAgentCall
    /\ \A t \in StreamThreads : io.pending[t] = NoPending

\* two Close in progress at once both returned nil
C18_OverlappingCloseBothSucceed ==
    io.overlap /\ io.ok["closeProcessStdin"] = 2 /\ io.closes = 2

(***************************************************************************)
(* C33.  A Close of stdin whose call to the agent fails returns the error  *)
(* of the agent and leaves the stream open: as long as no Close has        *)
(* succeeded, a Write still goes to the agent and a Close calls            *)
(* closeProcessStdin again, however many Close have failed; the closed     *)
(* flag is set exactly when a call of closeProcessStdin has succeeded.     *)
(***************************************************************************)
C33_FailedCloseStaysOpen ==
    /\ io.stream.closed <=> io.closes > 0
    /\ io.closes <= io.ok["closeProcessStdin"]
    /\ (io.last.method = "Close" /\ io.last.closedBefore = 0)
       => /\ io.last.call = AgentCall("closeProcessStdin", io.stream.container,
                                      io.stream.process, <<>>)
          /\ io.last.err = io.last.reply.err
          /\ io.last.reply.err # errNil => io.stream.closed = io.last.flagBefore
    /\ (io.last.method = "Write" /\ io.last.closedBefore = 0)
       => Delegated(io.last)

\* two Close have failed, each with a call to the agent, and the Write after
\* them is delegated
C33_Witness ==
    /\ io.last.method = "Write" /\ io.count = 3
    /\ \A t \in StreamThreads : io.pending[t] = NoPending
    /\ io.made["closeProcessStdin"] = 2 /\ io.ok["closeProcessStdin"] = 0
    /\ io.last.call.primitive = "writeProcessStdin"
    /\ io.last.reply = [n |-> 2, err |-> errNil] /\ io.last.n = 2

\* the handle of the last call was not closed: no Close of stdin succeeded
\* before a Write, and stdout and stderr have no Close
HandleOpen(call) == call.handle = "stdin" => call.closedBefore = 0

(***************************************************************************)
(* C19.  A Write or a Read on an open handle calls the primitive of the    *)
(* agent with the container, the process and the buffer, returns the byte  *)
(* count and the error of the agent, and leaves the handle open when the   *)
(* agent returned an error.                                                *)
(***************************************************************************)
C19_DelegatesToAgent ==
    (io.last.method \in {"Write", "Read"} /\ HandleOpen(io.last)) =>
        /\ Delegated(io.last)
        /\ io.stream.closed = io.last.flagBefore


(***************************************************************************)
(* The commands on a sandbox and its containers as actions: each is a      *)
(* process that reads the state from the store, runs and exits.            *)
(***************************************************************************)
LifeInit ==
    /\ lc = NoSandbox
    /\ cmd = NoCommands
    /\ cli = NoCli
    /\ agent = NoAgent
    /\ io = NoStreams
    /\ fs = EmptyFS
    /\ pre = fs
    /\ last = NoCall
    /\ ops = 0

SandboxCommand(op) ==
    /\ \E outcome \in Outcomes :
          lc' = [sandboxCommand(lc, op, outcome) EXCEPT
                    !.was = [sandbox |-> lc.sandbox, containers |-> lc.containers]]
    /\ UNCHANGED <<fs, pre, last, ops, io, cmd, cli, agent>>

ContainerCommand(op) ==
    /\ \E c \in LifeContainers, outcome \in Outcomes :
          lc' = [containerCommand(lc, c, op, outcome) EXCEPT
                    !.was = [sandbox |-> lc.sandbox, containers |-> lc.containers]]
    /\ UNCHANGED <<fs, pre, last, ops, io, cmd, cli, agent>>

CreateSandbox == SandboxCommand("create")
StartSandbox == SandboxCommand("start")
PauseSandbox == SandboxCommand("pause")
ResumeSandbox == SandboxCommand("resume")
StopSandbox == SandboxCommand("stop")
DeleteSandbox == SandboxCommand("delete")
CreateContainer == ContainerCommand("create")
StartContainer == ContainerCommand("start")
PauseContainer == ContainerCommand("pause")
ResumeContainer == ContainerCommand("resume")
StopContainer == ContainerCommand("stop")
DeleteContainer == ContainerCommand("delete")

LifeNext ==
    \/ CreateSandbox
    \/ StartSandbox
    \/ PauseSandbox
    \/ ResumeSandbox
    \/ StopSandbox
    \/ DeleteSandbox
    \/ CreateContainer
    \/ StartContainer
    \/ PauseContainer
    \/ ResumeContainer
    \/ StopContainer
    \/ DeleteContainer

LifeSpec == LifeInit /\ [][LifeNext]_vars

C20_WitnessStopped ==
    /\ lc.last.op = "stop" /\ lc.last.target = "sandbox" /\ lc.last.err = errNil
    /\ lc.was.containers["c1"] = "running" /\ lc.was.containers["c2"] = "paused"
    /\ lc.sandbox = "stopped"
    /\ \A c \in LifeContainers : lc.containers[c] = "stopped"

\* the resume of a container paused with its sandbox was rejected
C20_WitnessResume ==
    /\ lc.last.op = "resume" /\ lc.last.target = "c1"
    /\ lc.last.err = errSandboxNotRunning /\ ~lc.last.agent
    /\ lc.sandbox = "paused" /\ lc.containers["c1"] = "paused"


(***************************************************************************)
(* C21.  Starting a container whose sandbox is ready, paused or stopped    *)
(* fails with SandboxNotRunning, calls no agent, and leaves the state of   *)
(* the container and of the sandbox, in memory and in the store, as it     *)
(* was.  lc' is the state after the command that lc'.last records.         *)
(***************************************************************************)
C21_StartNeedsRunningSandbox ==
    [][\A c \in LifeContainers :
          (/\ lc'.last.op = "start" /\ lc'.last.target = c
           /\ lc.sandbox \in {"ready", "paused", "stopped"})
          => /\ lc'.last.err = errSandboxNotRunning
             /\ ~lc'.last.agent
             /\ lc'.sandbox = lc.sandbox
             /\ lc'.containers = lc.containers]_vars

\* a ready container was started in a paused sandbox and stays ready
C21_Witness ==
    /\ lc.last.op = "start" /\ lc.last.target \in LifeContainers
    /\ lc.last.err = errSandboxNotRunning
    /\ lc.sandbox = "paused"
    /\ \E c \in LifeContainers : lc.last.target = c /\ lc.containers[c] = "ready"

(***************************************************************************)
(* The pairs of states of the table of legal transitions.                  *)
(***************************************************************************)
LegalPairs ==
    {<<"none", "ready">>, <<"ready", "running">>, <<"running", "paused">>,
     <<"paused", "running">>, <<"running", "stopped">>, <<"paused", "stopped">>,
     <<"stopped", "none">>}

\* the state of the entity a command names, in the state l
TargetState(l, target) ==
    IF target = "sandbox" THEN l.sandbox ELSE l.containers[target]

\* the command lc'.last of this step was rejected or went along the table
TargetFollowsTable ==
    LET run == lc'.last
        from == TargetState(lc, run.target)
    IN  IF run.target # "sandbox" /\ lc.sandbox = "none"
        THEN run.err = errNotFound /\ lc'.containers = lc.containers
        ELSE IF Transition(from, run.op) = "illegal"
        THEN /\ run.err # errNil
             /\ lc'.sandbox = lc.sandbox /\ lc'.containers = lc.containers
        ELSE TargetState(lc', run.target) \in {from, Transition(from, run.op)}

C22_WitnessDelete ==
    /\ lc.last.op = "delete" /\ lc.last.target = "sandbox"
    /\ lc.last.err = errIllegalTransition /\ ~lc.last.agent
    /\ lc.sandbox = "stopped"
    /\ lc.containers["c1"] = "ready" /\ lc.containers["c2"] = "stopped"

MaxCommands == 3

CmdInit ==
    /\ cmd = NoCommands
    /\ cli = NoCli
    /\ agent = NoAgent
    /\ lc = NoSandbox
    /\ io = NoStreams
    /\ fs = EmptyFS
    /\ pre = fs
    /\ last = NoCall
    /\ ops = 0

\* a command starts as a process of its own
Begin(p) ==
    /\ cmd.procs[p].pc = "idle"
    /\ cmd.started < MaxCommands
    /\ \E op \in CmdOps :
          cmd' = [cmd EXCEPT !.started = @ + 1,
                             !.procs[p] = [NoProc EXCEPT !.pc = "acquire", !.op = op]]
    /\ UNCHANGED <<fs, pre, last, ops, io, lc, cli, agent>>

\* the blocking call of the lock returns
Acquire(p) ==
    /\ cmd.procs[p].pc = "acquire"
    /\ rwLockSandbox(cmd.holders, p)
    /\ cmd' = [cmd EXCEPT !.holders = @ \cup {p},
                          !.procs[p].pc = commandFlow("acquire", TRUE, FALSE)]
    /\ UNCHANGED <<fs, pre, last, ops, io, lc, cli, agent>>

Rehydrate(p) ==
    /\ cmd.procs[p].pc = "rehydrate"
    /\ LET pr == rehydrate(cmd.procs[p], cmd.store)
       IN  cmd' = [cmd EXCEPT !.procs[p] =
                      [pr EXCEPT !.pc = commandFlow("rehydrate", pr.err = errNil, pr.dirty)]]
    /\ UNCHANGED <<fs, pre, last, ops, io, lc, cli, agent>>

Operate(p) ==
    /\ cmd.procs[p].pc = "operate"
    /\ \E ok \in BOOLEAN :
          LET pr == operate(cmd.procs[p], ok)
          IN  cmd' = [cmd EXCEPT
                        !.guest = IF ok THEN Transition(cmd.procs[p].mem.state,
                                                        cmd.procs[p].op)
                                  ELSE @,
                        !.procs[p] = [pr EXCEPT !.pc = commandFlow("operate", ok, pr.dirty)]]
    /\ UNCHANGED <<fs, pre, last, ops, io, lc, cli, agent>>

Persist(p) ==
    /\ cmd.procs[p].pc = "persist"
    /\ \E ok \in BOOLEAN :
          LET pr == cmd.procs[p]
          IN  cmd' = [cmd EXCEPT
                        !.store = persist(pr, @, ok),
                        !.committed = IF ok THEN @ + 1 ELSE @,
                        !.procs[p] =
                            [pr EXCEPT !.mem.seq = IF ok THEN @ + 1 ELSE @,
                                       !.dirty = ~ok,
                                       !.err = IF ok THEN @ ELSE EIO,
                                       !.pc = commandFlow("persist", ok, ~ok)]]
    /\ UNCHANGED <<fs, pre, last, ops, io, lc, cli, agent>>

Release(p) ==
    /\ cmd.procs[p].pc = "release"
    /\ cmd' = [cmd EXCEPT !.holders = unlockSandbox(@, p),
                          !.procs[p].pc = commandFlow("release", TRUE, cmd.procs[p].dirty)]
    /\ UNCHANGED <<fs, pre, last, ops, io, lc, cli, agent>>

\* the process exits and hands its error to the caller
Finish(p) ==
    /\ cmd.procs[p].pc = "done"
    /\ cmd' = [cmd EXCEPT !.last = [proc |-> p, op |-> cmd.procs[p].op,
                                    err |-> cmd.procs[p].err],
                          !.procs[p] = NoProc]
    /\ UNCHANGED <<fs, pre, last, ops, io, lc, cli, agent>>

CmdNext ==
    \/ \E p \in Procs : Begin(p)
    \/ \E p \in Procs : Acquire(p)
    \/ \E p \in Procs : Rehydrate(p)
    \/ \E p \in Procs : Operate(p)
    \/ \E p \in Procs : Persist(p)
    \/ \E p \in Procs : Release(p)
    \/ \E p \in Procs : Finish(p)

CmdSpec == CmdInit /\ [][CmdNext]_vars

\* A process that holds the lock does not crash: it takes the steps that are
\* its own, reading the store, writing it and releasing the lock.  The agent
\* call may block without bound and the lock is not fair among the processes
\* that wait for it, so neither Operate nor Acquire is a step that must come.
CmdFairness ==
    \A p \in Procs :
        /\ WF_vars(Rehydrate(p))
        /\ WF_vars(Persist(p))
        /\ WF_vars(Release(p))

CmdLiveSpec == CmdInit /\ [][CmdNext]_vars /\ CmdFairness

\* the processes between the grant of the lock and its release
Sequencing ==
    {p \in Procs : cmd.procs[p].pc \in {"rehydrate", "operate", "persist", "release"}}

(***************************************************************************)
(* C23.  At most one process holds the lock of the sandbox, and a process  *)
(* is in its sequence of rehydrating, operating and persisting only while  *)
(* it holds the lock, so at most one process is in that sequence.          *)
(***************************************************************************)
C23_LockMutualExclusion ==
    /\ Cardinality(cmd.holders) <= 1
    /\ Sequencing \subseteq cmd.holders
    /\ Cardinality(Sequencing) <= 1

\* one process operates under the lock while the other waits for it
C23_Witness ==
    \E p, q \in Procs :
        /\ p # q
        /\ cmd.holders = {p} /\ cmd.procs[p].pc = "operate"
        /\ cmd.procs[q].pc = "acquire"

C24_HolderReleases ==
    \A p \in Procs : (p \in cmd.holders) ~> (p \notin cmd.holders)

\* a holder is never left without a step of its own or an agent call to wait for
C24_HolderNeverStuck ==
    \A p \in cmd.holders : cmd.procs[p].pc \in {"rehydrate", "operate", "persist", "release"}

C25_PersistOrder ==
    /\ cmd.store.seq = cmd.committed
    /\ \A p \in Procs :
        /\ cmd.procs[p].pc = "persist"
           => /\ p \in cmd.holders
              /\ cmd.procs[p].calls = 1
              /\ cmd.procs[p].dirty
              /\ cmd.procs[p].err = errNil
        /\ cmd.procs[p].pc \in {"operate", "persist"}
           => /\ cmd.procs[p].mem.seq >= cmd.committed
              /\ cmd.procs[p].from = cmd.store.state

\* a process rehydrated what the command of the other process persisted
C25_Witness ==
    \E p, q \in Procs :
        /\ p # q
        /\ cmd.last.proc = q /\ cmd.last.err = errNil
        /\ cmd.procs[p].pc = "operate"
        /\ cmd.procs[p].mem.seq = 1 /\ cmd.committed = 1
        /\ cmd.procs[p].from # "ready"

(***************************************************************************)
(* C26.  When the agent call of a command fails the command is over: the   *)
(* state in memory is the state that was rehydrated, nothing was           *)
(* persisted, the agent was called once, and the caller gets the error.    *)
(***************************************************************************)
C26_AgentFailureAborts ==
    /\ \A p \in Procs :
        cmd.procs[p].err = errAgent
        => /\ cmd.procs[p].pc \in {"release", "done"}
           /\ cmd.procs[p].calls = 1
           /\ ~cmd.procs[p].dirty
           /\ cmd.procs[p].mem.state = cmd.procs[p].from
           /\ cmd.procs[p].pc = "release"
              => cmd.store = cmd.procs[p].mem /\ cmd.committed = cmd.procs[p].mem.seq
    /\ cmd.last.err = errAgent => cmd.last.proc \in Procs

\* the agent call of a start failed and the sandbox is still ready
C26_Witness ==
    \E p \in Procs :
        /\ cmd.procs[p].pc = "release" /\ cmd.procs[p].err = errAgent
        /\ cmd.procs[p].op = "start"
        /\ cmd.store.state = "ready" /\ cmd.guest = "ready"


(***************************************************************************)
(* The commands of the command line as actions: the user gives a container *)
(* id, a format and at most MaxArgs arguments; the core reports the state  *)
(* and the type of the container and answers the call.  Each command is a  *)
(* process that takes two steps, the lookup of its container and the call  *)
(* of the core, and holds no lock between them: the commands of the other  *)
(* processes, a stop among them, run in between.                           *)
(***************************************************************************)
MaxArgs == 2

CliContainerIDs == {"", "s1", "c1", "c9"}
CliStates == {"ready", "running", "paused", "stopped"}
CliFormats == {"table", "json"}
CliArgs == UNION {[1..n -> {"-a", "-x"}] : n \in 0..MaxArgs}
CliReplies == {errNil, errCore}

\* the states the core may hold: a container runs in a running sandbox only
Worlds ==
    {w \in [DOMAIN ContainerMap -> CliStates] :
        \A c \in DOMAIN ContainerMap :
            w[c] = StateRunning => w[ContainerMap[c]] = StateRunning}

\* the container a call of the core is about
Target(call) == IF call.fn = "StartSandbox" THEN call.sandboxID ELSE call.containerID

\* the core starts what is ready, a container in a running sandbox only
CoreStarts(world, call) ==
    /\ world[Target(call)] = "ready"
    /\ call.fn = "StartContainer" => world[call.sandboxID] = StateRunning

\* the states after the core answered call with reply
CoreAfter(world, call, reply) ==
    IF call.fn \in {"StartSandbox", "StartContainer"} /\ reply = errNil
    THEN [world EXCEPT ![Target(call)] = StateRunning]
    ELSE world

\* the states after the core stopped container id: a sandbox stops with its
\* containers
CoreStopped(world, id) ==
    [c \in DOMAIN world |->
        IF (c = id \/ ContainerMap[c] = id) /\ world[c] \in {StateRunning, "paused"}
        THEN "stopped" ELSE world[c]]

\* the state the core reports of a container
StateOf(world, containerID) ==
    IF containerID \in DOMAIN world THEN world[containerID] ELSE ""

\* the container type annotation of a container: the container that has the
\* id of its sandbox is the one of the sandbox type
TypeOf(containerID) ==
    IF containerID \notin DOMAIN ContainerMap THEN NoAnnotation
    ELSE IF ContainerMap[containerID] = containerID THEN PodSandbox
    ELSE PodContainer

CliInit ==
    /\ cli \in {[NoCli EXCEPT !.world = w] : w \in Worlds}
    /\ agent = NoAgent
    /\ cmd = NoCommands
    /\ lc = NoSandbox
    /\ io = NoStreams
    /\ fs = EmptyFS
    /\ pre = fs
    /\ last = NoCall
    /\ ops = 0

\* what follows "ps" on the command line: nothing, or a container id and
\* the options
PsArgv == {<<>>} \cup {<<id>> \o a : id \in CliContainerIDs, a \in CliArgs}

\* the command of process p returned r
Returned(p, c, reply, r) ==
    [op |-> c.op, present |-> c.present, containerID |-> c.containerID,
     format |-> c.format, args |-> c.args, state |-> c.state, type |-> c.type,
     statusErr |-> c.statusErr, reply |-> reply, err |-> r.err, calls |-> r.calls,
     lookups |-> r.lookups,
     stateAtCall |-> IF r.calls = <<>> THEN "" ELSE cli.world[Target(r.calls[1])],
     procs |-> [cli.procs EXCEPT ![p] = ExitedCmd],
     world |-> IF r.calls = <<>> THEN cli.world ELSE CoreAfter(cli.world, r.calls[1], reply)]

\* the command of process p runs up to its call of the core: it returns when
\* it makes none (r0), and waits for the core otherwise
Looked(p, c, r0) ==
    cli' = IF r0.calls = <<>> THEN Returned(p, c, errNil, r0)
           ELSE [cli EXCEPT !.procs[p] = [c EXCEPT !.pc = "looked"]]

\* ps up to the call of ProcessListContainer
Ps ==
    /\ \E p \in CliProcs :
          /\ cli.procs[p].pc = "idle"
          /\ \E argv \in PsArgv, format \in CliFormats, statusErr \in CliReplies :
                LET containerID == IF argv = <<>> THEN "" ELSE Head(argv)
                    state == StateOf(cli.world, containerID)
                    type == TypeOf(containerID)
                IN  Looked(p, [pc |-> "idle", op |-> "ps", present |-> argv # <<>>,
                               containerID |-> containerID, format |-> format,
                               args |-> IF argv = <<>> THEN <<>> ELSE Tail(argv),
                               state |-> state, type |-> type, statusErr |-> statusErr],
                           psCLICommandAction(argv, format, state, type, statusErr, errNil))
    /\ UNCHANGED <<fs, pre, last, ops, io, lc, cmd, agent>>

\* the core answers the call of ps
PsProcessList ==
    /\ \E p \in CliProcs, reply \in CliReplies :
          LET c == cli.procs[p]
          IN  /\ c.pc = "looked" /\ c.op = "ps"
              /\ cli' = Returned(p, c, reply,
                                 psCLICommandAction(<<c.containerID>> \o c.args, c.format,
                                                    c.state, c.type, c.statusErr, reply))
    /\ UNCHANGED <<fs, pre, last, ops, io, lc, cmd, agent>>

\* start up to the call of StartSandbox or StartContainer
Start ==
    /\ \E p \in CliProcs :
          /\ cli.procs[p].pc = "idle"
          /\ \E containerID \in CliContainerIDs, statusErr \in CliReplies :
             \E type \in {TypeOf(containerID), NoAnnotation} :
                LET state == StateOf(cli.world, containerID)
                IN  Looked(p, [pc |-> "idle", op |-> "start", present |-> TRUE,
                               containerID |-> containerID, format |-> "",
                               args |-> <<>>, state |-> state, type |-> type,
                               statusErr |-> statusErr],
                           start(containerID, state, type, statusErr, errNil))
    /\ UNCHANGED <<fs, pre, last, ops, io, lc, cmd, agent>>

\* the core answers the call of start
StartCall ==
    /\ \E p \in CliProcs, reply \in CliReplies :
          LET c == cli.procs[p]
              r == start(c.containerID, c.state, c.type, c.statusErr, reply)
          IN  /\ c.pc = "looked" /\ c.op = "start"
              /\ reply = errNil => CoreStarts(cli.world, r.calls[1])
              /\ cli' = Returned(p, c, reply, r)
    /\ UNCHANGED <<fs, pre, last, ops, io, lc, cmd, agent>>

\* a command of another process stops a container
CoreStop ==
    /\ \E id \in DOMAIN ContainerMap :
          /\ cli.world[id] \in {StateRunning, "paused"}
          /\ cli' = [cli EXCEPT !.world = CoreStopped(cli.world, id)]
    /\ UNCHANGED <<fs, pre, last, ops, io, lc, cmd, agent>>

CliNext ==
    \/ Ps
    \/ PsProcessList
    \/ Start
    \/ StartCall
    \/ CoreStop

CliSpec == CliInit /\ [][CliNext]_vars

\* the command resolved its container: the mapping has it and the core
\* gave its status
Resolved == cli.containerID \in DOMAIN ContainerMap /\ cli.statusErr = errNil

(***************************************************************************)
(* C27.  As claimed: the call of the core that ps makes has the sandbox id *)
(* of the mapping as its sandbox identifier and the container id as its    *)
(* container identifier.                                                   *)
(***************************************************************************)
C27_PsIdentifierOrder ==
    (cli.op = "ps" /\ cli.calls # <<>>)
    => /\ cli.calls[1].sandboxID = ContainerMap[cli.containerID]
       /\ cli.calls[1].containerID = cli.containerID

(***************************************************************************)
(* C28.  ps calls the core for a running container only: with an empty     *)
(* container id, a container that does not resolve or a container that is  *)
(* not running it returns an error and makes no call; for a running        *)
(* container it calls ProcessListContainer once.  The state is the one ps  *)
(* looked up: the container may stop before ps calls the core.             *)
(***************************************************************************)
C28_PsOnlyRunning ==
    cli.op = "ps"
    => /\ ~cli.present => cli.err = errMissingContainerIDArg /\ cli.lookups = <<>>
       /\ (cli.containerID = "" \/ ~Resolved \/ cli.state # StateRunning)
          => cli.err # errNil /\ cli.calls = <<>>
       /\ (Resolved /\ cli.state = StateRunning)
          => /\ Len(cli.calls) = 1
             /\ cli.calls[1].fn = "ProcessListContainer"
             /\ cli.err = cli.reply

\* ps that called the core for a container that ran when ps looked and had
\* stopped when ps called
C28_StoppedMeanwhile ==
    /\ cli.op = "ps" /\ cli.calls # <<>>
    /\ cli.state = StateRunning /\ cli.stateAtCall = "stopped"

\* ps on a paused container that resolves
C28_Witness ==
    /\ cli.op = "ps" /\ cli.containerID = "c1" /\ cli.state = "paused"
    /\ cli.err = errNotRunning /\ cli.calls = <<>>

(***************************************************************************)
(* C29.  The options of the call ps makes hold the arguments of the user   *)
(* when there is one, the one argument -ef when there is none, and the     *)
(* format as given.                                                        *)
(***************************************************************************)
C29_PsOptions ==
    (cli.op = "ps" /\ cli.calls # <<>>)
    => /\ cli.calls[1].options.Format = cli.format
       /\ Len(cli.args) > 0 => cli.calls[1].options.Args = cli.args
       /\ Len(cli.args) = 0 => cli.calls[1].options.Args = <<"-ef">>

\* ps without arguments and with the json format
C29_Witness ==
    /\ cli.op = "ps" /\ cli.calls # <<>>
    /\ cli.args = <<>> /\ cli.format = "json"
    /\ cli.calls[1].options.Args = <<"-ef">>

(***************************************************************************)
(* C30.  start calls StartSandbox once for a container of the sandbox      *)
(* type, StartContainer once for one of the container type, and neither    *)
(* when the annotation is missing, which is an error; the error of the     *)
(* call is the error of start.                                             *)
(***************************************************************************)
C30_StartDispatch ==
    (cli.op = "start" /\ Resolved)
    => /\ cli.type = PodSandbox
          => /\ cli.calls = <<vciStartSandbox(ContainerMap[cli.containerID])>>
             /\ cli.err = cli.reply
       /\ cli.type = PodContainer
          => /\ cli.calls = <<vciStartContainer(ContainerMap[cli.containerID],
                                                cli.containerID)>>
             /\ cli.err = cli.reply
       /\ cli.type = NoAnnotation
          => cli.calls = <<>> /\ cli.err \notin {errNil, errCore}

\* start of the sandbox container, the core failing
C30_Witness ==
    /\ cli.op = "start" /\ cli.containerID = "s1" /\ cli.type = PodSandbox
    /\ cli.reply = errCore /\ cli.err = errCore
    /\ Len(cli.calls) = 1 /\ cli.calls[1].fn = "StartSandbox"


(***************************************************************************)
(* C31.  start with an empty container id or with a container id that the  *)
(* mapping does not have fails before it calls the core at all; with the   *)
(* container in the mapping, an error of the status lookup is the error of *)
(* start, and no start call follows.                                       *)
(***************************************************************************)
C31_StartLookupErrors ==
    cli.op = "start"
    => /\ (cli.containerID = "" \/ cli.containerID \notin DOMAIN ContainerMap)
          => /\ cli.err \notin {errNil, errCore}
             /\ cli.lookups = <<>> /\ cli.calls = <<>>
       /\ (cli.containerID \in DOMAIN ContainerMap /\ cli.statusErr # errNil)
          => /\ cli.err = cli.statusErr
             /\ cli.lookups = <<StatusContainer(ContainerMap[cli.containerID],
                                                cli.containerID)>>
             /\ cli.calls = <<>>

\* start of a container of the mapping whose status lookup failed
C31_Witness ==
    /\ cli.op = "start" /\ cli.containerID = "c1"
    /\ cli.statusErr = errCore /\ cli.err = errCore
    /\ Len(cli.lookups) = 1 /\ cli.calls = <<>>


(***************************************************************************)
(* Stores into a store that holds two sandboxes: s1 with the containers c1 *)
(* and c2, and s2 with the container c1.  Each store writes a value to the *)
(* resource of its type, of a sandbox or of a container.                   *)
(***************************************************************************)
FrameSandboxIDs == {"s1", "s2"}
FrameContainerIDs == {"c1", "c2"}

TwoSandboxes ==
    createAllResources(
        createAllResources(EmptyFS, [id |-> "s1", containers |-> <<"c1", "c2">>], 0).fs,
        [id |-> "s2", containers |-> <<"c1">>], 0).fs

FrameInit ==
    /\ fs = TwoSandboxes
    /\ pre = fs
    /\ last = NoCall
    /\ ops = 0
    /\ io = NoStreams
    /\ lc = NoSandbox
    /\ cmd = NoCommands
    /\ cli = NoCli
    /\ agent = NoAgent

FrameStoreSandboxResource ==
    /\ CanRun
    /\ \E sid \in FrameSandboxIDs, v \in TypedValues :
        Done("storeSandboxResource", TRUE, sid, "", ShapeResource(v.shape), v,
             NilResources, <<>>, 0,
             storeSandboxResource(fs, sid, ShapeResource(v.shape), v, 0),
             storeSandboxResource(fs, sid, ShapeResource(v.shape), v, 0), NoValue)

FrameStoreContainerResource ==
    /\ CanRun
    /\ \E sid \in FrameSandboxIDs, cid \in FrameContainerIDs, v \in TypedValues :
        Done("storeContainerResource", FALSE, sid, cid, ShapeResource(v.shape), v,
             NilResources, <<>>, 0,
             storeContainerResource(fs, sid, cid, ShapeResource(v.shape), v, 0),
             storeContainerResource(fs, sid, cid, ShapeResource(v.shape), v, 0), NoValue)

\* the five fetch functions of a sandbox (cid = "") and the five of a container
FrameFetchResource ==
    /\ CanRun
    /\ \E sid \in FrameSandboxIDs, cid \in FrameContainerIDs \cup {""} :
       \E kind \in IF cid = "" THEN SandboxFetchKinds ELSE ContainerFetchKinds :
        /\ ops' = ops + 1
        /\ pre' = fs
        /\ fs' = fs
        /\ UNCHANGED <<io, lc, cmd, cli, agent>>
        /\ last' = LET r == Fetch(fs, cid = "", sid, cid, kind)
                   IN  Call("fetch", cid = "", sid, cid, kind, NoValue, NilResources, <<>>, 0,
                            r.err, r.val)

FrameNext ==
    \/ Exit
    \/ FrameStoreSandboxResource
    \/ FrameStoreContainerResource
    \/ FrameFetchResource

FrameSpec == FrameInit /\ [][FrameNext]_vars

\* what is read under a key of a sandbox (cid = "") or of a container: by
\* the fetch function of the interface where it has one for the key, else
\* by fetchResource
FetchOf(f, sid, cid, kind) ==
    IF kind \in (IF cid = "" THEN SandboxFetchKinds ELSE ContainerFetchKinds)
    THEN Fetch(f, cid = "", sid, cid, kind)
    ELSE fetchKey(f, cid = "", sid, cid, kind)

(***************************************************************************)
(* C32.  After a store that returned no error, the fetch of every other    *)
(* (kind, sandbox, container) returns what it returned before the store:   *)
(* of another kind, of another sandbox, of another container, and of the   *)
(* sandbox when a container was stored and the other way round.  (A fetch  *)
(* changes nothing in the store.)                                          *)
(***************************************************************************)
C32_StoreFrame ==
    /\ (last.op \in StoreOps /\ last.err = errNil)
       => \A sid \in FrameSandboxIDs, cid \in FrameContainerIDs \cup {""},
             kind \in FetchedResources :
             <<kind, sid, cid>> # <<last.kind, last.sid, last.cid>>
             => FetchOf(fs, sid, cid, kind) = FetchOf(pre, sid, cid, kind)
    /\ last.op = "fetch" => fs = pre

\* the state of a container was stored where the state of its sandbox was
\* stored before
C32_Witness ==
    /\ last.op = "storeContainerResource" /\ last.err = errNil
    /\ last.kind = stateFileType /\ last.sid = "s1" /\ last.cid = "c1"
    /\ FetchOf(pre, "s1", "", stateFileType).err = errNil
    /\ FetchOf(fs, "s1", "c1", stateFileType) # FetchOf(pre, "s1", "c1", stateFileType)
    /\ FetchOf(fs, "s1", "c1", stateFileType).err = errNil


\* the kinds a delete works on, and whether each has a storage root
ListedKinds(call) == DefaultResources(call.kinds)
AllKnown(list) == \A i \in DOMAIN list : ResourceRoot(list[i]) # ""

\* nothing of the sandbox is left under the storage root of the resource
NothingUnder(f, resource, sid) ==
    /\ \A d \in f.dirs : ~(d[1] = ResourceRoot(resource) /\ d[2] = sid)
    /\ \A p \in DOMAIN f.files : ~(p[1] = ResourceRoot(resource) /\ p[2] = sid)

(***************************************************************************)
(* C34.  deleteContainerResources does not check the container id: with    *)
(* an empty container id, a sandbox id, known kinds and no fault of the    *)
(* file system it returns no error, and for every listed kind nothing of   *)
(* the sandbox is left under the root of the kind, neither the files of    *)
(* the sandbox nor the directory of any container.                         *)
(***************************************************************************)
C34_DeleteWithoutContainerID ==
    (last.op = "deleteContainerResources" /\ last.cid = "" /\ last.sid # ""
       /\ last.fault = 0 /\ AllKnown(ListedKinds(last))) =>
        /\ last.err = errNil
        /\ \A i \in DOMAIN ListedKinds(last) :
              NothingUnder(fs, ListedKinds(last)[i], last.sid)

\* the call removed the lock file of the sandbox and the directory of its
\* container with a resource stored in it
C34_Witness ==
    /\ last.op = "deleteContainerResources" /\ last.cid = "" /\ last.err = errNil
    /\ <<runStoragePath, last.sid, "", lockFileName>> \in DOMAIN pre.files
    /\ \E p \in DOMAIN pre.files : p[1] = runStoragePath /\ p[3] = "c1"
    /\ NothingUnder(fs, stateFileType, last.sid)


(***************************************************************************)
(* C35.  The network resource needs no container id, yet the container id  *)
(* is part of its path: resourceDir of (S, C, network) is the directory of *)
(* container C, and a NetworkNamespace that storeContainerResource stored  *)
(* with a container id went to network.json of that directory;             *)
(* fetchSandboxNetwork(S) returns what it returned before the store.       *)
(***************************************************************************)
C35_NetworkUnderContainer ==
    /\ \A cid \in ContainerIDs :
          resourceDir(FALSE, "s1", cid, networkFileType) =
              [dir |-> <<runStoragePath, "s1", cid>>, err |-> errNil]
    /\ (last.op = "storeContainerResource" /\ last.kind = networkFileType
          /\ last.err = errNil)
       => /\ last.cid # ""
          /\ <<runStoragePath, last.sid, last.cid, networkFile>> \in DOMAIN fs.files
          /\ Fetch(fs, TRUE, last.sid, "", networkFileType)
                = Fetch(pre, TRUE, last.sid, "", networkFileType)

\* the NetworkNamespace is stored and fetchSandboxNetwork finds no file
C35_Witness ==
    /\ last.op = "storeContainerResource" /\ last.kind = networkFileType
    /\ last.err = errNil /\ last.val.shape = "NetworkNamespace"
    /\ fetchKey(fs, FALSE, last.sid, last.cid, networkFileType).val = last.val
    /\ Fetch(fs, TRUE, last.sid, "", networkFileType).err = ENOENT


\* the file a store of the interface writes
StoredFile(call) ==
    <<ResourceRoot(call.kind), call.sid, call.cid, ResourceFileName(call.kind)>>

(***************************************************************************)
(* C36.  A store is not atomic: the file is created or truncated before    *)
(* the value is serialized.  When the serialization fails the store        *)
(* returns an error, the file is there and empty, and a fetch of the key   *)
(* fails: the value stored before under the key is lost.                   *)
(***************************************************************************)
C36_StoreNotAtomic ==
    (last.op \in StoreOps /\ last.err = errMarshal) =>
        /\ StoredFile(last) \in DOMAIN fs.files
        /\ fs.files[StoredFile(last)] = Truncated
        /\ fetchKey(fs, last.ss, last.sid, last.cid, last.kind).err # errNil

\* the serialization failed on a key whose fetch returned a value before
C36_Witness ==
    /\ last.op = "storeSandboxState" /\ last.err = errMarshal
    /\ fetchKey(pre, last.ss, last.sid, last.cid, last.kind).err = errNil
    /\ pre.files[StoredFile(last)].json = "object"
    /\ fetchKey(fs, last.ss, last.sid, last.cid, last.kind).err # errNil


(***************************************************************************)
(* Runs on a store an earlier createAllResources left: the skeleton of s1  *)
(* and c1, or the state directory of s1 alone, left by a call that failed  *)
(* at the configuration directory.  Resources are stored and               *)
(* createAllResources is called again.                                     *)
(***************************************************************************)
StateDirOnly == createAllResources(EmptyFS, [id |-> "s1", containers |-> <<>>], 2).fs

RollbackInit ==
    /\ fs \in {Skeleton, StateDirOnly}
    /\ pre = fs
    /\ last = NoCall
    /\ ops = 0
    /\ io = NoStreams
    /\ lc = NoSandbox
    /\ cmd = NoCommands
    /\ cli = NoCli
    /\ agent = NoAgent

RollbackNext ==
    \/ Exit
    \/ CreateAllResources
    \/ StoreSandboxResource
    \/ StoreContainerResource

RollbackSpec == RollbackInit /\ [][RollbackNext]_vars

\* createAllResources failed after the directories of the sandbox were made:
\* at the directory of a container or at the lock file
FailedPastSandboxDirs(call) ==
    /\ call.op = "createAllResources" /\ call.sid # "" /\ call.err # errNil
    /\ call.fault \notin {1, 2}

(***************************************************************************)
(* C37.  The rollback of createAllResources is not limited to what the     *)
(* failing call created: when the call fails at the directory of a         *)
(* container or at the lock file, nothing of the sandbox is left under     *)
(* either root; every resource stored before the call and the lock file    *)
(* are deleted.                                                            *)
(***************************************************************************)
C37_RollbackDeletesStored ==
    FailedPastSandboxDirs(last) =>
        /\ NothingOf(fs, last.sid)
        /\ \A p \in DOMAIN pre.files : p[2] = last.sid => p \notin DOMAIN fs.files

\* the creation of the lock file failed in a sandbox that held a stored
\* resource
C37_Witness ==
    /\ FailedPastSandboxDirs(last)
    /\ last.fault = 2 * Len(last.conts) + 3
    /\ \E p \in DOMAIN pre.files : p[2] = last.sid /\ pre.files[p].json = "object"
    /\ NothingOf(fs, last.sid)

\* a container directory failed in a sandbox that held a stored resource and
\* the lock file
C37_WitnessContainer ==
    /\ FailedPastSandboxDirs(last)
    /\ last.fault = 3
    /\ \E p \in DOMAIN pre.files : p[2] = last.sid /\ pre.files[p].json = "object"
    /\ <<runStoragePath, last.sid, "", lockFileName>> \in DOMAIN pre.files
    /\ NothingOf(fs, last.sid)


(***************************************************************************)
(* C38.  When createAllResources fails at the configuration directory of   *)
(* the sandbox, after it created the state directory, it returns the       *)
(* error and rolls nothing back: the state directory of the sandbox is in  *)
(* the store, and everything the store held before the call is still       *)
(* there.                                                                  *)
(***************************************************************************)
C38_NoRollbackAtSandboxDirs ==
    (last.op = "createAllResources" /\ last.sid # "" /\ last.fault = 2) =>
        /\ last.err = EIO
        /\ <<runStoragePath, last.sid, "">> \in fs.dirs
        /\ <<configStoragePath, last.sid, "">> \in fs.dirs
              <=> <<configStoragePath, last.sid, "">> \in pre.dirs
        /\ pre.dirs \subseteq fs.dirs
        /\ \A p \in DOMAIN pre.files : p \in DOMAIN fs.files /\ fs.files[p] = pre.files[p]

\* the call created the state directory of a sandbox the store had nothing of
C38_Witness ==
    /\ last.op = "createAllResources" /\ last.fault = 2 /\ last.err = EIO
    /\ NothingOf(pre, last.sid)
    /\ fs.dirs = {<<runStoragePath, last.sid, "">>}


\* the places in the list where a delete fails: the kind has no storage
\* root, or its os.RemoveAll fails
FailingKinds(call) ==
    {i \in DOMAIN ListedKinds(call) :
        ResourceRoot(ListedKinds(call)[i]) = "" \/ call.fault = i}

FirstFailing(call) == CHOOSE i \in FailingKinds(call) : \A j \in FailingKinds(call) : i <= j

\* the directory the delete removes for the i-th kind of its list
RemovedDir(call, i) == <<ResourceRoot(ListedKinds(call)[i]), call.sid, call.cid>>

\* p is under a directory the delete removed before it failed
RemovedEarlier(call, p) == \E i \in 1..(FirstFailing(call) - 1) : Under(p, RemovedDir(call, i))

(***************************************************************************)
(* C39.  deleteSandboxResources and deleteContainerResources work through  *)
(* the kinds in the order of the list and stop at the first that is        *)
(* invalid or whose removal fails: the call returns an error, the          *)
(* directories of the kinds before it are removed and stay removed, and    *)
(* everything else in the store is as it was.                              *)
(***************************************************************************)
C39_DeleteStopsAtFirstFailure ==
    (last.op \in DeleteOps /\ last.sid # "" /\ FailingKinds(last) # {}) =>
        /\ last.err # errNil
        /\ fs.dirs = {d \in pre.dirs : ~RemovedEarlier(last, d)}
        /\ DOMAIN fs.files = {p \in DOMAIN pre.files : ~RemovedEarlier(last, p)}
        /\ \A p \in DOMAIN fs.files : fs.files[p] = pre.files[p]

\* the second kind of the list failed after the directory of the first,
\* which held a file, was removed
C39_Witness ==
    /\ last.op \in DeleteOps /\ last.sid # "" /\ FailingKinds(last) # {}
    /\ FirstFailing(last) = 2 /\ last.err # errNil
    /\ \E p \in DOMAIN pre.files : Under(p, RemovedDir(last, 1))
    /\ \A p \in DOMAIN fs.files : ~Under(p, RemovedDir(last, 1))
    /\ fs # pre


(***************************************************************************)
(* An AgentType variable, which holds any string (the zero value, a value  *)
(* read from a configuration), with Set and String called on it.           *)
(***************************************************************************)
MaxAgentCalls == 2

AgentStrings == {"", "noop", "hyperstart", "kata", "Kata", "kata ", "hyper", "qemu"}

AgentInit ==
    /\ agent \in {AgentVar(t) : t \in AgentStrings}
    /\ fs = EmptyFS
    /\ pre = fs
    /\ last = NoCall
    /\ ops = 0
    /\ io = NoStreams
    /\ lc = NoSandbox
    /\ cmd = NoCommands
    /\ cli = NoCli

AgentSet ==
    /\ agent.count < MaxAgentCalls
    /\ \E value \in AgentStrings :
          LET r == AgentTypeSet(agent.type, value)
          IN  agent' = [type |-> r.agentType, count |-> agent.count + 1,
                        last |-> [op |-> "Set", value |-> value, before |-> agent.type,
                                  err |-> r.err, out |-> ""]]
    /\ UNCHANGED <<fs, pre, last, ops, io, lc, cmd, cli>>

AgentString ==
    /\ agent.count < MaxAgentCalls
    /\ agent' = [agent EXCEPT !.count = @ + 1,
                              !.last = [op |-> "String", value |-> agent.last.value,
                                        before |-> agent.type, err |-> agent.last.err,
                                        out |-> AgentTypeString(agent.type)]]
    /\ UNCHANGED <<fs, pre, last, ops, io, lc, cmd, cli>>

AgentNext ==
    \/ AgentSet
    \/ AgentString

AgentSpec == AgentInit /\ [][AgentNext]_vars

KnownAgentTypes == {"noop", "hyperstart", "kata"}

(***************************************************************************)
(* C40.  Set accepts exactly noop, hyperstart and kata: for each of them   *)
(* it returns no error and a String that follows returns the string set;   *)
(* for any other string it returns an error and the agent type is the one  *)
(* before the call.  String of an agent type that is none of the three     *)
(* returns the empty string.                                               *)
(***************************************************************************)
C40_AgentTypeSetString ==
    /\ agent.last.op = "Set"
       => /\ agent.last.err = <<>> <=> agent.last.value \in KnownAgentTypes
          /\ agent.last.value \in KnownAgentTypes => agent.type = agent.last.value
          /\ agent.last.value \notin KnownAgentTypes => agent.type = agent.last.before
    /\ agent.last.op = "String"
       => /\ agent.type = agent.last.before
          /\ agent.type \notin KnownAgentTypes => agent.last.out = ""
          /\ agent.type \in KnownAgentTypes => agent.last.out = agent.type
          /\ (agent.last.err = <<>> /\ agent.last.value \in KnownAgentTypes)
             => agent.last.out = agent.last.value

\* String after a Set of kata that succeeded
C40_Witness ==
    /\ agent.last.op = "String" /\ agent.last.before = "kata"
    /\ agent.last.value = "kata" /\ agent.last.err = <<>>
    /\ agent.last.out = "kata"

\* a Set of a string that is none of the three left a known agent type as it
\* was
C40_WitnessRejected ==
    /\ agent.last.op = "Set" /\ agent.last.value = "Kata"
    /\ agent.last.err # <<>> /\ agent.type = "kata"

=============================================================================
